---- MODULE Spec2Model ----
(***************************************************************************)
(* Model of the notif.sh Rust SDK subscription client                      *)
(* (sdk/rust/src/subscribe.rs, sdk/rust/src/types.rs).                     *)
(*                                                                         *)
(* One connection is modelled: EventStream::connect (dial, Subscribe,      *)
(* handshake reply, channel creation, task spawn), the spawned task's      *)
(* tokio::select! loop (inbound arm, outbound arm), and the caller's side  *)
(* (poll_next, Event::ack, Event::nack, dropping the handle or an event).  *)
(* SupervisorSpec puts the reconnect loops of the example applications     *)
(* (hub, agent-management, event-log) around that connection, WorkerSpec   *)
(* the pull-then-ack consumer of examples/subscribe.rs, and EmitSpec       *)
(* follows one call of Notif::emit (sdk/rust/src/client.rs).  PermSpec     *)
(* follows the permission state of the agent-management example: the       *)
(* queues and active maps of AppState, their mutexes, the commands that    *)
(* take them and the subscription handler that fills the queues.           *)
(***************************************************************************)
EXTENDS Integers, Sequences, FiniteSets, TLC

\* ------------------------------------------------------------------ bounds
\* Number of read.next() results the spawned task consumes before the one
\* that ends its loop.
MaxFrames == 2
\* Number of ack()/nack() calls the caller makes.
MaxCalls == 2
\* The calls of subscribe_with_options a reconnect loop makes are counted up
\* to this number; the loop itself goes on without end.
MaxAttempts == 2
\* Capacity of both mpsc channels.  The source creates them with
\* mpsc::channel(100) (subscribe.rs:99-100); the model scales the capacity
\* down so that a full channel is reachable within MaxFrames / MaxCalls.
ChannelBound == 1
\* Number of permission requests the agent-management subscription receives.
MaxRequests == 3
\* Number of commands the frontend of agent-management invokes.
MaxCommands == 4

\* ------------------------------------------------------------------ Option<T>
None == <<>>
Some(v) == <<v>>
unwrap_or(o, d) == IF o = None THEN d ELSE o[1]

\* A JSON object is a record holding exactly the keys that are present.
Field(json, k) == IF k \in DOMAIN json THEN Some(json[k]) ELSE None
\* #[serde(skip_serializing_if = "Option::is_none")]: the key is written only
\* when the value is Some.
SkipIfNone(k, o) == IF o = None THEN <<>> ELSE [x \in {k} |-> o[1]]

\* ------------------------------------------------------------------ inputs
\* What the caller asks for: topics and SubscribeOptions.
SubscribeOptions_new == [auto_ack |-> TRUE, from |-> None, group |-> None]

\* subscribe that asks for manual acknowledgment.
subscribe_manual_ack(topics) ==
  [topics |-> topics,
   options |-> [auto_ack |-> FALSE, from |-> None, group |-> None]]

\* client.rs:208-210  subscribe_with_options(topics, SubscribeOptions::new())
subscribe(topics) == [topics |-> topics, options |-> SubscribeOptions_new]

Requests ==
  { subscribe(<<"orders.*">>),
    [topics |-> <<"orders.*", "agents.>">>,
     options |-> [auto_ack |-> FALSE, from |-> Some("beginning"),
                  group |-> Some("worker-pool")]] }

\* What read.next() can return while the transport is up.
Text(json) == [kind |-> "Text", json |-> json]

EventFull ==
  Text([type |-> "event", id |-> "e1", topic |-> "orders.created",
        data |-> "d1", timestamp |-> "ts1", attempt |-> 4, max_attempts |-> 2])
EventBare == Text([type |-> "event", id |-> "e2", topic |-> "orders.paid"])
EventNoId == Text([type |-> "event", topic |-> "orders.created", data |-> "d1"])
EventNoTopic == Text([type |-> "event", id |-> "e1", attempt |-> 2])
ErrorWithMessage == Text([type |-> "error", code |-> "forbidden",
                          message |-> "topic not allowed"])
ErrorBare == Text([type |-> "error"])
SubscribedFrame == Text([type |-> "subscribed", consumer_id |-> "c1"])
PongFrame == Text([type |-> "pong"])
GarbageText == Text([junk |-> "x"])
BinaryFrame == [kind |-> "Binary"]
CloseFrame == [kind |-> "Close"]
StreamEnd == [kind |-> "End"]
ReadError == [kind |-> "Err", error |-> "connection reset"]

WellFormedEvents == {EventFull, EventBare}

UpReads ==
  WellFormedEvents \cup
  { EventNoId, EventNoTopic, ErrorWithMessage, ErrorBare, SubscribedFrame,
    PongFrame, GarbageText, BinaryFrame, CloseFrame, StreamEnd }

\* The frames the task is fed under Spec, where the caller acknowledges too:
\* one frame for each way the inbound arm goes on (push Ok, push Err and
\* continue, nothing, break).  FrameSpec feeds it every frame of UpReads.
CoreReads ==
  WellFormedEvents \cup {ErrorWithMessage, PongFrame, CloseFrame}

\* ------------------------------------------------------------------ errors
NotifError_api(status, message) ==
  [variant |-> "Api", status |-> status, message |-> message]
\* The message of a WebSocket error is kept as the pieces format!() joins.
NotifError_websocket(message) == [variant |-> "WebSocket", message |-> message]
\* Serialization wraps the serde_json::Error it was made from.
NotifError_Serialization(source) ==
  [variant |-> "Serialization", source |-> source]

Ok(v) == [tag |-> "Ok", value |-> v]
Err(e) == [tag |-> "Err", error |-> e]

\* ------------------------------------------------------------------ codec
\* serde_json::from_str::<ServerMessage>: `type` is the only required key;
\* every other field is an Option.
from_str(json) ==
  IF "type" \notin DOMAIN json
  THEN Err(NotifError_Serialization("missing field type"))
  ELSE Ok([msg_type |-> json["type"],
           id |-> Field(json, "id"),
           topic |-> Field(json, "topic"),
           data |-> Field(json, "data"),
           timestamp |-> Field(json, "timestamp"),
           attempt |-> Field(json, "attempt"),
           max_attempts |-> Field(json, "max_attempts"),
           message |-> Field(json, "message")])

\* SubscribeMessage that names only the first topic and leaves the consumer
\* group out.
SubscribeMessage_first_topic(topics, options) ==
  [action |-> "subscribe",
   topics |-> << topics[1] >>,
   options |-> [auto_ack |-> options.auto_ack]
               @@ SkipIfNone("from", options.from)]

SubscribeMessage(topics, options) ==
  [action |-> "subscribe",
   topics |-> topics,
   options |-> [auto_ack |-> options.auto_ack]
               @@ SkipIfNone("from", options.from)
               @@ SkipIfNone("group", options.group)]

AckWireMessage(id) == [action |-> "ack", id |-> id]

NackWireMessage(id, retry_in) ==
  [action |-> "nack", id |-> id] @@ SkipIfNone("retry_in", retry_in)

\* AckMessage enum
Ack(id) == [tag |-> "Ack", id |-> id]
Nack(id, retry_in) == [tag |-> "Nack", id |-> id, retry_in |-> retry_in]

\* ------------------------------------------------------------------ state
VARIABLES
  request,        \* topics and options given to connect
  conn,           \* position of connect(): Init, Connected, Handshaking, Active, Failed
  connect_result, \* None while connect runs, then Some(Ok("EventStream")) or Some(Err(e))
  link,           \* transport: none, up, down (broken), closed (both halves dropped)
  wire_out,       \* frames the client has written, in order
  handshake_reply,\* the one reply read during the handshake (Option)
  wire_in,        \* read.next() results the spawned task has consumed, in order
  channels,       \* TRUE once mpsc::channel(..) has been called
  event_rx,       \* Event Channel buffer
  ack_rx,         \* Acknowledgment Channel buffer
  pump,           \* spawned task: none, select, sending, done
  pending,        \* item the task is suspended pushing (Option)
  exit_reason,    \* why the loop of the task ended (Option)
  handle,         \* EventStream: none, alive, dropped
  yielded,        \* items poll_next has returned, in order
  ended,          \* poll_next has returned Ready(None)
  held,           \* events the caller owns (it keeps every event it pulled)
  call,           \* ack()/nack() suspended in tx.send (Option)
  call_log,       \* completed ack()/nack() calls, in order of completion
  supervisor,     \* loop around the connection: none, listener, toast, event_log, worker
  sup_pc,         \* its position: none, loop_top, connecting, streaming, leaving, sleeping
  env_api_key,    \* NOTIF_API_KEY in the environment of the process (Option)
  status,         \* "status" signals emitted in the current round of the loop
  attempts,       \* calls of subscribe_with_options made by the loop, counted up to MaxAttempts
  emit_pc,        \* Notif::emit: idle, awaiting (request sent), done
  emit_request,   \* the EmitRequest of the call (Option)
  emit_reply,     \* what send().await gave (Option)
  emit_result,    \* what emit returned (Option)
  queues,         \* AppState.queues: session id -> requests waiting, oldest first
  active,         \* AppState.active: session id -> the request being shown
  locked,         \* owner of the queues mutex and of the active mutex ("free" or a task)
  task,           \* per command task: command, position, arguments, locals, result
  arrived,        \* requests the subscription handler has queued, in order
  presented,      \* requests get_current_permission has made active, in order
  invoked         \* number of commands invoked so far

coreVars == << request, conn, connect_result, link, wire_out, handshake_reply,
               wire_in, channels, event_rx, ack_rx, pump, pending, exit_reason,
               handle, yielded, ended, held, call, call_log >>
supVars == << supervisor, sup_pc, env_api_key, status, attempts >>
emitVars == << emit_pc, emit_request, emit_reply, emit_result >>
permVars == << queues, active, locked, task, arrived, presented, invoked >>
vars == << coreVars, supVars, emitVars, permVars >>

connVars == << request, conn, connect_result, handshake_reply, channels >>
callerVars == << handle, yielded, ended, held, call, call_log >>

\* The state connect() starts from, for the given topics and options.
Fresh(req) ==
  /\ request = req
  /\ conn = "Init"
  /\ connect_result = None
  /\ link = "none"
  /\ wire_out = <<>>
  /\ handshake_reply = None
  /\ wire_in = <<>>
  /\ channels = FALSE
  /\ event_rx = <<>>
  /\ ack_rx = <<>>
  /\ pump = "none"
  /\ pending = None
  /\ exit_reason = None
  /\ handle = "none"
  /\ yielded = <<>>
  /\ ended = FALSE
  /\ held = {}
  /\ call = None
  /\ call_log = <<>>

\* No emit call has been made.
NoEmit ==
  /\ emit_pc = "idle"
  /\ emit_request = None
  /\ emit_reply = None
  /\ emit_result = None

\* agent-management/src/lib.rs:147-160  AppState::new: both maps empty, no
\* mutex held; no command has been invoked and no request received.
Tasks == {"t1", "t2"}
EmptyMap == [k \in {} |-> None]
IdleTask ==
  [cmd |-> "none", pc |-> "idle", session_id |-> "", decision |-> "",
   removed |-> None, sent |-> None, result |-> None]
NoPerm ==
  /\ queues = EmptyMap
  /\ active = EmptyMap
  /\ locked = [queues |-> "free", active |-> "free"]
  /\ task = [t \in Tasks |-> IdleTask]
  /\ arrived = <<>>
  /\ presented = <<>>
  /\ invoked = 0

\* One subscription made directly by the caller, no reconnect loop around it.
Init ==
  /\ \E req \in Requests : Fresh(req)
  /\ supervisor = "none"
  /\ sup_pc = "none"
  /\ env_api_key = None
  /\ status = <<>>
  /\ attempts = 0
  /\ NoEmit
  /\ NoPerm

\* ------------------------------------------------------------------ connect
\* Returning Err from connect drops the socket halves it holds.
connect_fail(e) ==
  /\ conn' = "Failed"
  /\ connect_result' = Some(Err(e))
  /\ link' = IF link = "none" THEN "none" ELSE "closed"

\* subscribe.rs:42-46  connect_async(&ws_url).await.map_err(..)?
connect_async ==
  /\ conn = "Init"
  /\ \/ /\ conn' = "Connected"
        /\ link' = "up"
        /\ UNCHANGED connect_result
     \/ connect_fail(NotifError_websocket(<<"connection failed: ", "refused">>))
  /\ UNCHANGED << request, wire_out, handshake_reply, wire_in, channels,
                  event_rx, ack_rx, pump, pending, exit_reason >>
  /\ UNCHANGED callerVars
  /\ UNCHANGED << supVars, emitVars, permVars >>

\* send_subscribe that writes the Subscribe frame a second time.
send_subscribe_twice ==
  /\ conn = "Connected"
  /\ IF link = "up"
     THEN /\ wire_out' = wire_out
                         \o << SubscribeMessage(request.topics, request.options),
                               SubscribeMessage(request.topics, request.options) >>
          /\ conn' = "Handshaking"
          /\ UNCHANGED << connect_result, link >>
     ELSE /\ connect_fail(NotifError_websocket(<<"failed to send subscribe: ",
                                                 "connection reset">>))
          /\ UNCHANGED wire_out
  /\ UNCHANGED << request, handshake_reply, wire_in, channels,
                  event_rx, ack_rx, pump, pending, exit_reason >>
  /\ UNCHANGED callerVars
  /\ UNCHANGED << supVars, emitVars, permVars >>

\* subscribe.rs:48-63  build the SubscribeMessage and write.send(..).await
send_subscribe ==
  /\ conn = "Connected"
  /\ IF link = "up"
     THEN /\ wire_out' = Append(wire_out,
                                SubscribeMessage(request.topics, request.options))
          /\ conn' = "Handshaking"
          /\ UNCHANGED << connect_result, link >>
     ELSE /\ connect_fail(NotifError_websocket(<<"failed to send subscribe: ",
                                                 "connection reset">>))
          /\ UNCHANGED wire_out
  /\ UNCHANGED << request, handshake_reply, wire_in, channels,
                  event_rx, ack_rx, pump, pending, exit_reason >>
  /\ UNCHANGED callerVars
  /\ UNCHANGED << supVars, emitVars, permVars >>

\* handshake that reports every error frame with the fixed text instead of
\* the message the broker sent.
handshake_fixed_message(reply) ==
  IF reply.kind = "Text"
  THEN LET msg == from_str(reply.json) IN
       IF msg.tag = "Err" THEN Err(msg.error)
       ELSE IF msg.value.msg_type = "subscribed" THEN Ok("subscribed")
       ELSE IF msg.value.msg_type = "error"
       THEN Err(NotifError_api(400, "subscription error"))
       ELSE Err(NotifError_websocket(<<"unexpected message type: ",
                                       msg.value.msg_type>>))
  ELSE IF reply.kind = "Err"
  THEN Err(NotifError_websocket(<<"WebSocket error: ", reply.error>>))
  ELSE IF reply.kind = "End"
  THEN Err(NotifError_websocket(<<"connection closed unexpectedly">>))
  ELSE Err(NotifError_websocket(<<"unexpected message format">>))

\* handshake that lets every decodable text frame other than "error" pass
\* (`_ => {}` in place of the "subscribed" arm).
handshake_lenient(reply) ==
  IF reply.kind = "Text"
  THEN LET msg == from_str(reply.json) IN
       IF msg.tag = "Err" THEN Err(msg.error)
       ELSE IF msg.value.msg_type = "error"
       THEN Err(NotifError_api(400, unwrap_or(msg.value.message,
                                             "subscription error")))
       ELSE Ok("subscribed")
  ELSE IF reply.kind = "Err"
  THEN Err(NotifError_websocket(<<"WebSocket error: ", reply.error>>))
  ELSE IF reply.kind = "End"
  THEN Err(NotifError_websocket(<<"connection closed unexpectedly">>))
  ELSE Err(NotifError_websocket(<<"unexpected message format">>))

\* subscribe.rs:66-96  the match on the single reply read during the handshake
handshake(reply) ==
  IF reply.kind = "Text"
  THEN LET msg == from_str(reply.json) IN
       IF msg.tag = "Err" THEN Err(msg.error)
       ELSE IF msg.value.msg_type = "subscribed" THEN Ok("subscribed")
       ELSE IF msg.value.msg_type = "error"
       THEN Err(NotifError_api(400, unwrap_or(msg.value.message,
                                             "subscription error")))
       ELSE Err(NotifError_websocket(<<"unexpected message type: ",
                                       msg.value.msg_type>>))
  ELSE IF reply.kind = "Err"
  THEN Err(NotifError_websocket(<<"WebSocket error: ", reply.error>>))
  ELSE IF reply.kind = "End"
  THEN Err(NotifError_websocket(<<"connection closed unexpectedly">>))
  ELSE Err(NotifError_websocket(<<"unexpected message format">>))

\* What read.next() can return now: a frame while the transport is up, the
\* transport error once it is broken.
ReadsFrom(frames) == IF link = "up" THEN frames ELSE {ReadError}
Reads == ReadsFrom(UpReads)

\* subscribe.rs:66-105,190  read one reply; on Subscribed create the channels,
\* spawn the task and return the handle.
connect_handshake(reply) ==
  /\ conn = "Handshaking"
  /\ reply \in Reads
  /\ handshake_reply' = Some(reply)
  /\ IF handshake(reply).tag = "Ok"
     THEN /\ conn' = "Active"
          /\ connect_result' = Some(Ok("EventStream"))
          /\ channels' = TRUE
          /\ pump' = "select"
          /\ handle' = "alive"
          /\ UNCHANGED link
     ELSE /\ connect_fail(handshake(reply).error)
          /\ UNCHANGED << channels, pump, handle >>
  /\ UNCHANGED << request, wire_out, wire_in, event_rx, ack_rx, pending,
                  exit_reason, yielded, ended, held, call, call_log >>
  /\ UNCHANGED << supVars, emitVars, permVars >>

\* The transport breaks (environment).
link_break ==
  /\ link = "up"
  /\ link' = "down"
  /\ UNCHANGED << request, conn, connect_result, wire_out, handshake_reply,
                  wire_in, channels, event_rx, ack_rx, pump, pending,
                  exit_reason >>
  /\ UNCHANGED callerVars
  /\ UNCHANGED << supVars, emitVars, permVars >>

\* ------------------------------------------------------------------ spawned task
\* ack_tx_for_events without the auto_ack test: every Event carries a sender.
ack_tx_always == Some("ack_tx")

\* subscribe.rs:102
ack_tx_for_events ==
  IF request.options.auto_ack THEN None ELSE Some("ack_tx")

JsonNull == "null"
UtcNow == "now"

\* Event that fills an absent attempt with 0 and an absent max_attempts
\* with 1.
Event_other_defaults(server_msg) ==
  [id |-> server_msg.id[1],
   topic |-> server_msg.topic[1],
   data |-> unwrap_or(server_msg.data, JsonNull),
   timestamp |-> unwrap_or(server_msg.timestamp, UtcNow),
   attempt |-> unwrap_or(server_msg.attempt, 0),
   max_attempts |-> unwrap_or(server_msg.max_attempts, 1),
   ack_tx |-> ack_tx_for_events]

\* Event that clamps attempt to max_attempts.
Event_clamped(server_msg) ==
  LET attempt == unwrap_or(server_msg.attempt, 1)
      max_attempts == unwrap_or(server_msg.max_attempts, 3)
  IN  [id |-> server_msg.id[1],
       topic |-> server_msg.topic[1],
       data |-> unwrap_or(server_msg.data, JsonNull),
       timestamp |-> unwrap_or(server_msg.timestamp, UtcNow),
       attempt |-> IF attempt > max_attempts THEN max_attempts ELSE attempt,
       max_attempts |-> max_attempts,
       ack_tx |-> ack_tx_for_events]

\* subscribe.rs:125-133  Event construction with the defaults of the optional
\* fields.
Event(server_msg) ==
  [id |-> server_msg.id[1],
   topic |-> server_msg.topic[1],
   data |-> unwrap_or(server_msg.data, JsonNull),
   timestamp |-> unwrap_or(server_msg.timestamp, UtcNow),
   attempt |-> unwrap_or(server_msg.attempt, 1),
   max_attempts |-> unwrap_or(server_msg.max_attempts, 3),
   ack_tx |-> ack_tx_for_events]

\* How the loop goes on after a push: "continue" ignores the result of
\* event_tx.send (let _ =), "break_on_err" breaks when it failed (line 134),
\* "break" leaves the loop whatever the result (line 155).
Plan(push, then, reason) == [push |-> push, then |-> then, reason |-> reason]

\* inbound_arm that leaves the loop after an error frame.
inbound_arm_error_fatal(msg) ==
  IF msg.kind = "Text"
  THEN LET parsed == from_str(msg.json) IN
       IF parsed.tag = "Ok"
       THEN LET server_msg == parsed.value IN
            IF server_msg.msg_type = "event"
            THEN IF server_msg.id # None /\ server_msg.topic # None
                 THEN Plan(Some(Ok(Event(server_msg))), "break_on_err",
                           "receiver_dropped")
                 ELSE Plan(Some(Err(NotifError_websocket(
                                  <<"malformed event: missing id or topic">>))),
                           "continue", "")
            ELSE IF server_msg.msg_type = "error"
            THEN Plan(Some(Err(NotifError_api(
                             400, unwrap_or(server_msg.message, "unknown error")))),
                      "break", "error_frame")
            ELSE Plan(None, "continue", "")
       ELSE Plan(Some(Err(parsed.error)), "continue", "")
  ELSE IF msg.kind = "Close" THEN Plan(None, "break", "close_frame")
  ELSE IF msg.kind = "Err"
  THEN Plan(Some(Err(NotifError_websocket(<<msg.error>>))), "break",
            "transport_error")
  ELSE IF msg.kind = "End" THEN Plan(None, "break", "stream_end")
  ELSE Plan(None, "continue", "")

\* inbound_arm that skips an event frame lacking id or topic without pushing
\* anything.
inbound_arm_skip_malformed(msg) ==
  IF msg.kind = "Text"
  THEN LET parsed == from_str(msg.json) IN
       IF parsed.tag = "Ok"
       THEN LET server_msg == parsed.value IN
            IF server_msg.msg_type = "event"
            THEN IF server_msg.id # None /\ server_msg.topic # None
                 THEN Plan(Some(Ok(Event(server_msg))), "break_on_err",
                           "receiver_dropped")
                 ELSE Plan(None, "continue", "")
            ELSE IF server_msg.msg_type = "error"
            THEN Plan(Some(Err(NotifError_api(
                             400, unwrap_or(server_msg.message, "unknown error")))),
                      "continue", "")
            ELSE Plan(None, "continue", "")
       ELSE Plan(Some(Err(parsed.error)), "continue", "")
  ELSE IF msg.kind = "Close" THEN Plan(None, "break", "close_frame")
  ELSE IF msg.kind = "Err"
  THEN Plan(Some(Err(NotifError_websocket(<<msg.error>>))), "break",
            "transport_error")
  ELSE IF msg.kind = "End" THEN Plan(None, "break", "stream_end")
  ELSE Plan(None, "continue", "")

\* inbound_arm that reports a frame of an unknown type as an Err item, the
\* way the handshake does.
inbound_arm_unknown_is_err(msg) ==
  IF msg.kind = "Text"
  THEN LET parsed == from_str(msg.json) IN
       IF parsed.tag = "Ok"
       THEN LET server_msg == parsed.value IN
            IF server_msg.msg_type = "event"
            THEN IF server_msg.id # None /\ server_msg.topic # None
                 THEN Plan(Some(Ok(Event(server_msg))), "break_on_err",
                           "receiver_dropped")
                 ELSE Plan(Some(Err(NotifError_websocket(
                                  <<"malformed event: missing id or topic">>))),
                           "continue", "")
            ELSE IF server_msg.msg_type = "error"
            THEN Plan(Some(Err(NotifError_api(
                             400, unwrap_or(server_msg.message, "unknown error")))),
                      "continue", "")
            ELSE Plan(Some(Err(NotifError_websocket(
                             <<"unexpected message type: ", server_msg.msg_type>>))),
                      "continue", "")
       ELSE Plan(Some(Err(parsed.error)), "continue", "")
  ELSE IF msg.kind = "Close" THEN Plan(None, "break", "close_frame")
  ELSE IF msg.kind = "Err"
  THEN Plan(Some(Err(NotifError_websocket(<<msg.error>>))), "break",
            "transport_error")
  ELSE IF msg.kind = "End" THEN Plan(None, "break", "stream_end")
  ELSE Plan(None, "continue", "")

\* inbound_arm that pushes an Err item for the close frame and for the end of
\* the stream too.
inbound_arm_close_is_err(msg) ==
  IF msg.kind = "Text"
  THEN LET parsed == from_str(msg.json) IN
       IF parsed.tag = "Ok"
       THEN LET server_msg == parsed.value IN
            IF server_msg.msg_type = "event"
            THEN IF server_msg.id # None /\ server_msg.topic # None
                 THEN Plan(Some(Ok(Event(server_msg))), "break_on_err",
                           "receiver_dropped")
                 ELSE Plan(Some(Err(NotifError_websocket(
                                  <<"malformed event: missing id or topic">>))),
                           "continue", "")
            ELSE IF server_msg.msg_type = "error"
            THEN Plan(Some(Err(NotifError_api(
                             400, unwrap_or(server_msg.message, "unknown error")))),
                      "continue", "")
            ELSE Plan(None, "continue", "")
       ELSE Plan(Some(Err(parsed.error)), "continue", "")
  ELSE IF msg.kind = "Close"
  THEN Plan(Some(Err(NotifError_websocket(<<"connection closed">>))), "break",
            "close_frame")
  ELSE IF msg.kind = "Err"
  THEN Plan(Some(Err(NotifError_websocket(<<msg.error>>))), "break",
            "transport_error")
  ELSE IF msg.kind = "End"
  THEN Plan(Some(Err(NotifError_websocket(<<"connection closed">>))), "break",
            "stream_end")
  ELSE Plan(None, "continue", "")

\* subscribe.rs:110-159  the match of the inbound arm on one read result.
inbound_arm(msg) ==
  IF msg.kind = "Text"
  THEN LET parsed == from_str(msg.json) IN
       IF parsed.tag = "Ok"
       THEN LET server_msg == parsed.value IN
            IF server_msg.msg_type = "event"
            THEN IF server_msg.id # None /\ server_msg.topic # None
                 THEN Plan(Some(Ok(Event(server_msg))), "break_on_err",
                           "receiver_dropped")
                 ELSE Plan(Some(Err(NotifError_websocket(
                                  <<"malformed event: missing id or topic">>))),
                           "continue", "")
            ELSE IF server_msg.msg_type = "error"
            THEN Plan(Some(Err(NotifError_api(
                             400, unwrap_or(server_msg.message, "unknown error")))),
                      "continue", "")
            ELSE Plan(None, "continue", "")
       ELSE Plan(Some(Err(parsed.error)), "continue", "")
  ELSE IF msg.kind = "Close" THEN Plan(None, "break", "close_frame")
  ELSE IF msg.kind = "Err"
  THEN Plan(Some(Err(NotifError_websocket(<<msg.error>>))), "break",
            "transport_error")
  ELSE IF msg.kind = "End" THEN Plan(None, "break", "stream_end")
  ELSE Plan(None, "continue", "")

\* task_end after which the loop is entered again.
task_end_keeps_running(reason) ==
  /\ pump' = "select"
  /\ exit_reason' = Some(reason)
  /\ ack_rx' = <<>>
  /\ link' = "closed"

\* The async block returns: read, write, event_tx, ack_rx and
\* ack_tx_for_events are dropped, which closes the connection and discards
\* whatever is still queued on the Acknowledgment Channel.
task_end(reason) ==
  /\ pump' = "done"
  /\ exit_reason' = Some(reason)
  /\ ack_rx' = <<>>
  /\ link' = "closed"

task_continue ==
  /\ pump' = "select"
  /\ UNCHANGED << exit_reason, ack_rx, link >>

\* run_plan with try_send in place of send(..).await: a full buffer drops
\* the item instead of suspending the task.
run_plan_try_send(p) ==
  IF p.push = None
  THEN /\ pending' = None
       /\ UNCHANGED event_rx
       /\ IF p.then = "break" THEN task_end(p.reason) ELSE task_continue
  ELSE IF handle = "dropped"
  THEN /\ pending' = None
       /\ UNCHANGED event_rx
       /\ IF p.then = "continue" THEN task_continue ELSE task_end(p.reason)
  ELSE /\ pending' = None
       /\ event_rx' = IF Len(event_rx) < ChannelBound
                      THEN Append(event_rx, p.push[1])
                      ELSE event_rx
       /\ IF p.then = "break" THEN task_end(p.reason) ELSE task_continue

\* One arm of the inbound match from the point where it pushes:
\* event_tx.send(item).await fails at once when the receiver is gone,
\* completes when the buffer has room, and otherwise suspends the task.
run_plan(p) ==
  IF p.push = None
  THEN /\ pending' = None
       /\ UNCHANGED event_rx
       /\ IF p.then = "break" THEN task_end(p.reason) ELSE task_continue
  ELSE IF handle = "dropped"
  THEN /\ pending' = None
       /\ UNCHANGED event_rx
       /\ IF p.then = "continue" THEN task_continue ELSE task_end(p.reason)
  ELSE IF Len(event_rx) < ChannelBound
  THEN /\ pending' = None
       /\ event_rx' = Append(event_rx, p.push[1])
       /\ IF p.then = "break" THEN task_end(p.reason) ELSE task_continue
  ELSE /\ pump' = "sending"
       /\ pending' = Some(p)
       /\ UNCHANGED << event_rx, exit_reason, ack_rx, link >>

\* Frames the task may consume before the one that ends its loop.  Under
\* the consumer of examples/subscribe.rs, which has one call in progress at
\* a time, both channels can only be full at once after ChannelBound + 1
\* events were pulled and ChannelBound + 1 more were pushed.
FrameBudget ==
  IF supervisor = "worker" THEN 2 * ChannelBound + 2 ELSE MaxFrames

\* subscribe.rs:109-160  select! takes the inbound arm: msg = read.next()
inbound(msg) ==
  /\ pump = "select"
  /\ msg \in Reads
  /\ Len(wire_in) < FrameBudget \/ inbound_arm(msg).then = "break"
  /\ wire_in' = Append(wire_in, msg)
  /\ run_plan(inbound_arm(msg))
  /\ UNCHANGED << wire_out >>
  /\ UNCHANGED connVars
  /\ UNCHANGED callerVars
  /\ UNCHANGED << supVars, emitVars, permVars >>

\* The task suspended in event_tx.send(..).await is woken: room in the
\* buffer, or the receiver was dropped.
send_resume ==
  /\ pump = "sending"
  /\ handle = "dropped" \/ Len(event_rx) < ChannelBound
  /\ run_plan(pending[1])
  /\ UNCHANGED << wire_in, wire_out >>
  /\ UNCHANGED connVars
  /\ UNCHANGED callerVars
  /\ UNCHANGED << supVars, emitVars, permVars >>

\* Senders of the Acknowledgment Channel that are still alive: the one in
\* the EventStream, the clone the task captured (ack_tx_for_events), and the
\* clone inside every Event that has not been dropped.
CarriesSender(item) == item.tag = "Ok" /\ item.value.ack_tx # None

SendersIn(items) ==
  Cardinality({i \in DOMAIN items : CarriesSender(items[i])})

ack_senders ==
  (IF handle = "alive" THEN 1 ELSE 0)
  + (IF pump \in {"select", "sending"} /\ ack_tx_for_events # None THEN 1 ELSE 0)
  + Cardinality({e \in held : e.ack_tx # None})
  + SendersIn(event_rx)
  + (IF pending # None /\ pending[1].push # None
     THEN SendersIn(pending[1].push) ELSE 0)

\* wire_frame that leaves retry_in out of the Nack frame.
wire_frame_no_retry(ack_msg) ==
  IF ack_msg.tag = "Ack"
  THEN AckWireMessage(ack_msg.id)
  ELSE NackWireMessage(ack_msg.id, None)

\* wire_frame that fills in a retry delay of "5m" when the decision has none.
wire_frame_default_delay(ack_msg) ==
  IF ack_msg.tag = "Ack"
  THEN AckWireMessage(ack_msg.id)
  ELSE NackWireMessage(ack_msg.id, Some(unwrap_or(ack_msg.retry_in, "5m")))

\* subscribe.rs:164-182  the wire frame of one AckMessage
wire_frame(ack_msg) ==
  IF ack_msg.tag = "Ack"
  THEN AckWireMessage(ack_msg.id)
  ELSE NackWireMessage(ack_msg.id, ack_msg.retry_in)

\* outbound of a loop that gives the inbound arm fixed priority: a decision
\* is dequeued only when read.next() has nothing to offer.
outbound_inbound_first ==
  /\ pump = "select"
  /\ link # "up"
  /\ IF ack_rx # <<>>
     THEN /\ ack_rx' = Tail(ack_rx)
          /\ wire_out' = wire_out
          /\ UNCHANGED << pump, exit_reason, link >>
     ELSE /\ ack_senders = 0
          /\ task_end("ack_channel_closed")
          /\ UNCHANGED wire_out
  /\ UNCHANGED << wire_in, event_rx, pending >>
  /\ UNCHANGED connVars
  /\ UNCHANGED callerVars
  /\ UNCHANGED << supVars, emitVars, permVars >>

\* subscribe.rs:162-185  select! takes the outbound arm: ack_msg = ack_rx.recv()
\* recv() returns None only when the buffer is empty and no sender is left.
\* The result of write.send is ignored (let _ =).
outbound ==
  /\ pump = "select"
  /\ IF ack_rx # <<>>
     THEN /\ ack_rx' = Tail(ack_rx)
          /\ wire_out' = IF link = "up"
                         THEN Append(wire_out, wire_frame(Head(ack_rx)))
                         ELSE wire_out
          /\ UNCHANGED << pump, exit_reason, link >>
     ELSE /\ ack_senders = 0
          /\ task_end("ack_channel_closed")
          /\ UNCHANGED wire_out
  /\ UNCHANGED << wire_in, event_rx, pending >>
  /\ UNCHANGED connVars
  /\ UNCHANGED callerVars
  /\ UNCHANGED << supVars, emitVars, permVars >>

\* ------------------------------------------------------------------ caller
\* poll_next that reports the end of the sequence as soon as the task has
\* ended, whatever is still buffered.
poll_next_ends_early ==
  /\ handle = "alive"
  /\ IF pump = "done"
     THEN /\ ended' = TRUE
          /\ UNCHANGED << yielded, event_rx, held >>
     ELSE /\ event_rx # <<>>
          /\ yielded' = Append(yielded, Head(event_rx))
          /\ event_rx' = Tail(event_rx)
          /\ held' = IF Head(event_rx).tag = "Ok"
                     THEN held \cup {Head(event_rx).value}
                     ELSE held
          /\ UNCHANGED ended
  /\ UNCHANGED << handle, call, call_log >>
  /\ UNCHANGED << link, wire_out, wire_in, ack_rx, pump, pending, exit_reason >>
  /\ UNCHANGED connVars
  /\ UNCHANGED << supVars, emitVars, permVars >>

\* subscribe.rs:194-200  poll_next: the next buffered item; Ready(None) once
\* the buffer is empty and the task (the only owner of event_tx) has ended;
\* Pending otherwise (no step).
poll_next ==
  /\ handle = "alive"
  /\ IF event_rx # <<>>
     THEN /\ yielded' = Append(yielded, Head(event_rx))
          /\ event_rx' = Tail(event_rx)
          /\ held' = IF Head(event_rx).tag = "Ok"
                     THEN held \cup {Head(event_rx).value}
                     ELSE held
          /\ UNCHANGED ended
     ELSE /\ pump = "done"
          /\ ended' = TRUE
          /\ UNCHANGED << yielded, event_rx, held >>
  /\ UNCHANGED << handle, call, call_log >>
  /\ UNCHANGED << link, wire_out, wire_in, ack_rx, pump, pending, exit_reason >>
  /\ UNCHANGED connVars
  /\ UNCHANGED << supVars, emitVars, permVars >>

\* Completed that reports a send error to the caller when the decision was
\* discarded.
Completed_reports_discard(ack_msg, outcome) ==
  [msg |-> ack_msg, outcome |-> outcome,
   returned |-> IF outcome = "discarded"
                THEN Err(NotifError_websocket(<<"channel closed">>))
                ELSE Ok("()")]

\* A completed ack()/nack() call: the decision, what became of it, and the
\* value the call returned (types.rs:100,118: always Ok(())).
Completed(ack_msg, outcome) ==
  [msg |-> ack_msg, outcome |-> outcome, returned |-> Ok("()")]

\* tx_send on a channel that overwrites its oldest entry when full instead of
\* making the sender wait.
tx_send_overwrite(ack_tx, ack_msg) ==
  IF ack_tx = None
  THEN /\ call_log' = Append(call_log, Completed(ack_msg, "noop"))
       /\ UNCHANGED << ack_rx, call >>
  ELSE IF pump = "done"
  THEN /\ call_log' = Append(call_log, Completed(ack_msg, "discarded"))
       /\ call' = None
       /\ UNCHANGED ack_rx
  ELSE /\ call_log' = Append(call_log, Completed(ack_msg, "enqueued"))
       /\ ack_rx' = IF Len(ack_rx) < ChannelBound
                    THEN Append(ack_rx, ack_msg)
                    ELSE Append(Tail(ack_rx), ack_msg)
       /\ call' = None

\* tx_send of a client that remembers what it has acknowledged: a decision
\* for an event that already has one is not enqueued again.
tx_send_dedup(ack_tx, ack_msg) ==
  IF ack_tx = None
  THEN /\ call_log' = Append(call_log, Completed(ack_msg, "noop"))
       /\ UNCHANGED << ack_rx, call >>
  ELSE IF pump = "done"
  THEN /\ call_log' = Append(call_log, Completed(ack_msg, "discarded"))
       /\ call' = None
       /\ UNCHANGED ack_rx
  ELSE IF \E i \in DOMAIN call_log : call_log[i].msg.id = ack_msg.id
  THEN /\ call_log' = Append(call_log, Completed(ack_msg, "duplicate"))
       /\ call' = None
       /\ UNCHANGED ack_rx
  ELSE IF Len(ack_rx) < ChannelBound
  THEN /\ call_log' = Append(call_log, Completed(ack_msg, "enqueued"))
       /\ ack_rx' = Append(ack_rx, ack_msg)
       /\ call' = None
  ELSE /\ call' = Some(ack_msg)
       /\ UNCHANGED << ack_rx, call_log >>

\* tx_send that puts every decision on the channel twice.
tx_send_twice(ack_tx, ack_msg) ==
  IF ack_tx = None
  THEN /\ call_log' = Append(call_log, Completed(ack_msg, "noop"))
       /\ UNCHANGED << ack_rx, call >>
  ELSE IF pump = "done"
  THEN /\ call_log' = Append(call_log, Completed(ack_msg, "discarded"))
       /\ call' = None
       /\ UNCHANGED ack_rx
  ELSE IF Len(ack_rx) < ChannelBound
  THEN /\ call_log' = Append(call_log, Completed(ack_msg, "enqueued"))
       /\ ack_rx' = ack_rx \o << ack_msg, ack_msg >>
       /\ call' = None
  ELSE /\ call' = Some(ack_msg)
       /\ UNCHANGED << ack_rx, call_log >>

\* types.rs:93-99,110-117  if let Some(tx) = &self.ack_tx { let _ =
\* tx.send(msg).await; }: nothing without a sender; with one, the send fails at
\* once when the receiver is gone (ignored), completes when the buffer has
\* room, and otherwise suspends the caller.
tx_send(ack_tx, ack_msg) ==
  IF ack_tx = None
  THEN /\ call_log' = Append(call_log, Completed(ack_msg, "noop"))
       /\ UNCHANGED << ack_rx, call >>
  ELSE IF pump = "done"
  THEN /\ call_log' = Append(call_log, Completed(ack_msg, "discarded"))
       /\ call' = None
       /\ UNCHANGED ack_rx
  ELSE IF Len(ack_rx) < ChannelBound
  THEN /\ call_log' = Append(call_log, Completed(ack_msg, "enqueued"))
       /\ ack_rx' = Append(ack_rx, ack_msg)
       /\ call' = None
  ELSE /\ call' = Some(ack_msg)
       /\ UNCHANGED << ack_rx, call_log >>

CallerIdle == call = None /\ Len(call_log) < MaxCalls

\* types.rs:92-101  Event::ack
ack(e) ==
  /\ e \in held
  /\ CallerIdle
  /\ tx_send(e.ack_tx, Ack(e.id))
  /\ UNCHANGED << handle, yielded, ended, held >>
  /\ UNCHANGED << link, wire_out, wire_in, event_rx, pump, pending, exit_reason >>
  /\ UNCHANGED connVars
  /\ UNCHANGED << supVars, emitVars, permVars >>

RetryDelays == {None, Some("5m")}

\* types.rs:109-119  Event::nack
nack(e, retry_in) ==
  /\ e \in held
  /\ CallerIdle
  /\ tx_send(e.ack_tx, Nack(e.id, retry_in))
  /\ UNCHANGED << handle, yielded, ended, held >>
  /\ UNCHANGED << link, wire_out, wire_in, event_rx, pump, pending, exit_reason >>
  /\ UNCHANGED connVars
  /\ UNCHANGED << supVars, emitVars, permVars >>

\* The caller suspended in tx.send(..).await is woken: room in the buffer, or
\* the receiver was dropped.
call_resume ==
  /\ call # None
  /\ pump = "done" \/ Len(ack_rx) < ChannelBound
  /\ tx_send(Some("ack_tx"), call[1])
  /\ UNCHANGED << handle, yielded, ended, held >>
  /\ UNCHANGED << link, wire_out, wire_in, event_rx, pump, pending, exit_reason >>
  /\ UNCHANGED connVars
  /\ UNCHANGED << supVars, emitVars, permVars >>

\* The caller drops the EventStream: event_rx (with everything still
\* buffered) and the ack_tx of the handle go away.
drop_handle ==
  /\ handle = "alive"
  /\ handle' = "dropped"
  /\ event_rx' = <<>>
  /\ UNCHANGED << yielded, ended, held, call, call_log >>
  /\ UNCHANGED << link, wire_out, wire_in, ack_rx, pump, pending, exit_reason >>
  /\ UNCHANGED connVars
  /\ UNCHANGED << supVars, emitVars, permVars >>

\* ------------------------------------------------------------------ specification
Next ==
  \/ connect_async
  \/ send_subscribe
  \/ \E reply \in Reads : connect_handshake(reply)
  \/ link_break
  \/ \E msg \in ReadsFrom(CoreReads) : inbound(msg)
  \/ send_resume
  \/ outbound
  \/ poll_next
  \/ \E e \in held : ack(e)
  \/ \E e \in held, retry_in \in RetryDelays : nack(e, retry_in)
  \/ call_resume
  \/ drop_handle

Spec == Init /\ [][Next]_vars

\* The same program fed every frame of UpReads, with a caller that pulls and
\* may drop the handle but makes no ack()/nack() call.
FrameNext ==
  \/ connect_async
  \/ send_subscribe
  \/ \E reply \in Reads : connect_handshake(reply)
  \/ link_break
  \/ \E msg \in Reads : inbound(msg)
  \/ send_resume
  \/ outbound
  \/ poll_next
  \/ drop_handle

FrameSpec == Init /\ [][FrameNext]_vars

\* A subscription with auto-ack disabled that is fed event frames and the
\* close frame only, with a caller that pulls, makes ack()/nack() calls and
\* may drop the handle.
AckReads == WellFormedEvents \cup {CloseFrame}

AckInit == Init /\ ~request.options.auto_ack

AckNext ==
  \/ connect_async
  \/ send_subscribe
  \/ \E reply \in ReadsFrom({SubscribedFrame}) : connect_handshake(reply)
  \/ link_break
  \/ \E msg \in ReadsFrom(AckReads) : inbound(msg)
  \/ send_resume
  \/ outbound
  \/ poll_next
  \/ \E e \in held : ack(e)
  \/ \E e \in held, retry_in \in RetryDelays : nack(e, retry_in)
  \/ call_resume
  \/ drop_handle

AckSpec == AckInit /\ [][AckNext]_vars

\* ------------------------------------------------------------------ reconnect loops
\* The loops the example applications run around a subscription:
\*   listener   hub/src/lib.rs:118-142, agent-management/src/lib.rs:523-566,
\*              598-631, toast/src/lib.rs:56-76
\*              (the client is built once, before the loop)
\*   toast      toast/src/lib.rs:29-53, the same loop on its own topic
\*   event_log  event-log/src/lib.rs:16-65,83-91 (the client is built from the
\*              environment in every round, and "status" signals are emitted)
\* One connection is followed at a time: a new call of subscribe_with_options
\* starts from a fresh connection, and whatever task the previous connection
\* left behind is no longer followed.
Supervisors == {"listener", "toast", "event_log"}

\* client.rs:16
API_KEY_PREFIX == "nsh_"

\* Values of NOTIF_API_KEY: unset, set to a key with the prefix, set to one
\* without.  A key is kept as << prefix, rest >>.
ApiKeys == { None, Some(<< "nsh_", "k1" >>), Some(<< "sk_", "k1" >>) }

\* from_env that builds a client from any key that is set.
from_env_any_key ==
  IF env_api_key = None
  THEN Err([variant |-> "Auth",
            message |-> << "NOTIF_API_KEY", " environment variable not set" >>])
  ELSE Ok("Notif")

\* client.rs:50-57,111-116  Notif::from_env: the variable must be set and
\* build() wants the prefix.
from_env ==
  IF env_api_key = None
  THEN Err([variant |-> "Auth",
            message |-> << "NOTIF_API_KEY", " environment variable not set" >>])
  ELSE IF env_api_key[1][1] # API_KEY_PREFIX
  THEN Err([variant |-> "Auth",
            message |-> << "API key must start with '", API_KEY_PREFIX, "'" >>])
  ELSE Ok("Notif")

\* hub/src/lib.rs:121-124, agent-management/src/lib.rs:527-530,
\* event-log/src/lib.rs:26-29  the topics and options of the subscription.
SupervisorRequest(kind) ==
  [topics |-> IF kind = "event_log" THEN << "desktop.>" >>
              ELSE IF kind = "toast" THEN << "desktop.hub.notify" >>
              ELSE << "claude.permission.request" >>,
   options |-> [auto_ack |-> TRUE, from |-> Some("latest"), group |-> None]]

SupInit ==
  /\ supervisor \in Supervisors
  /\ sup_pc = "loop_top"
  /\ env_api_key \in ApiKeys
  \* hub/src/lib.rs:146, toast/src/lib.rs:129  run() stops at expect(..)
  \* without a usable key
  /\ supervisor # "event_log" => from_env.tag = "Ok"
  /\ status = <<>>
  /\ attempts = 0
  /\ Fresh(SupervisorRequest(supervisor))
  /\ NoEmit
  /\ NoPerm

\* subscribe_with_options calls EventStream::connect (client.rs:244-250): a
\* new connection is started for the request.
connect(req) ==
  /\ request' = req
  /\ conn' = "Init"
  /\ connect_result' = None
  /\ link' = "none"
  /\ wire_out' = <<>>
  /\ handshake_reply' = None
  /\ wire_in' = <<>>
  /\ channels' = FALSE
  /\ event_rx' = <<>>
  /\ ack_rx' = <<>>
  /\ pump' = "none"
  /\ pending' = None
  /\ exit_reason' = None
  /\ handle' = "none"
  /\ yielded' = <<>>
  /\ ended' = FALSE
  /\ held' = {}
  /\ call' = None
  /\ call_log' = <<>>

\* sup_subscribe of a loop that stays asleep for good once the client cannot
\* be built or a round is over.
sup_subscribe_once ==
  /\ sup_pc = "loop_top"
  /\ conn = "Init"
  /\ IF supervisor = "event_log" /\ from_env.tag = "Err"
     THEN /\ sup_pc' = "sleeping"
          /\ UNCHANGED << coreVars, attempts >>
     ELSE /\ sup_pc' = "connecting"
          /\ attempts' = IF attempts < MaxAttempts THEN attempts + 1
                         ELSE attempts
          /\ connect(SupervisorRequest(supervisor))
  /\ UNCHANGED << supervisor, env_api_key, status >>
  /\ UNCHANGED << emitVars, permVars >>

\* Top of the loop.  event-log/src/lib.rs:18-34: from_env()? returns Err to
\* run() when the client cannot be built; otherwise, as in hub/src/lib.rs:119-125,
\* subscribe_with_options is called with the topics and options of the loop.
sup_subscribe ==
  /\ sup_pc = "loop_top"
  /\ IF supervisor = "event_log" /\ from_env.tag = "Err"
     THEN /\ sup_pc' = "sleeping"
          /\ UNCHANGED << coreVars, attempts >>
     ELSE /\ sup_pc' = "connecting"
          /\ attempts' = IF attempts < MaxAttempts THEN attempts + 1
                         ELSE attempts
          /\ connect(SupervisorRequest(supervisor))
  /\ UNCHANGED << supervisor, env_api_key, status >>
  /\ UNCHANGED << emitVars, permVars >>

\* subscribe_with_options returned Err.  hub/src/lib.rs:135-137 prints it;
\* event-log/src/lib.rs:31-34 maps it to a String and returns it with `?`,
\* and run() prints it (lines 85-87).  No signal is emitted on either path.
sup_connect_err ==
  /\ sup_pc = "connecting"
  /\ conn = "Failed"
  /\ sup_pc' = "sleeping"
  /\ UNCHANGED << supervisor, env_api_key, status, attempts >>
  /\ UNCHANGED << emitVars, permVars >>
  /\ UNCHANGED coreVars

\* subscribe_with_options returned the stream.  event-log/src/lib.rs:36-40
\* sleeps 500 ms and then emits "connected"; the listener goes straight to its
\* while-let loop.
sup_connected ==
  /\ sup_pc = "connecting"
  /\ conn = "Active"
  /\ sup_pc' = "streaming"
  /\ status' = IF supervisor = "event_log"
               THEN Append(status, "connected") ELSE status
  /\ UNCHANGED << supervisor, env_api_key, attempts >>
  /\ UNCHANGED << emitVars, permVars >>
  /\ UNCHANGED coreVars

\* The item stream.next() returned last is an Err the event_log loop has not
\* yet reacted to.
ErrPulled ==
  /\ supervisor = "event_log"
  /\ yielded # <<>>
  /\ yielded[Len(yielded)].tag = "Err"

\* stream.next().await in the while-let loop of either supervisor.  An Ok item
\* is forwarded to the frontend; the listener skips an Err item
\* (`if let Ok(event) = result`, hub/src/lib.rs:129).
sup_next ==
  /\ sup_pc = "streaming"
  /\ ~ended
  /\ ~ErrPulled
  /\ poll_next

\* event-log/src/lib.rs:55-59  Err(e) => emit "error" and break.
sup_break ==
  /\ sup_pc = "streaming"
  /\ ErrPulled
  /\ status' = Append(status, "error")
  /\ sup_pc' = "leaving"
  /\ UNCHANGED << supervisor, env_api_key, attempts >>
  /\ UNCHANGED << emitVars, permVars >>
  /\ UNCHANGED coreVars

\* stream.next() returned None: the while-let loop is over.
sup_stream_end ==
  /\ sup_pc = "streaming"
  /\ ended
  /\ sup_pc' = "leaving"
  /\ UNCHANGED << supervisor, env_api_key, status, attempts >>
  /\ UNCHANGED << emitVars, permVars >>
  /\ UNCHANGED coreVars

\* sup_leave of a loop that keeps the stream past the while-let loop.
sup_leave_keeps_stream ==
  /\ sup_pc = "leaving"
  /\ status' = IF supervisor = "event_log"
               THEN Append(status, "disconnected") ELSE status
  /\ sup_pc' = "sleeping"
  /\ UNCHANGED << supervisor, env_api_key, attempts >>
  /\ UNCHANGED << emitVars, permVars >>
  /\ UNCHANGED coreVars

\* Past the while-let loop: event-log/src/lib.rs:63-64 emits "disconnected"
\* and returns Ok(()); in both loops the stream goes out of scope here.
sup_leave ==
  /\ sup_pc = "leaving"
  /\ status' = IF supervisor = "event_log"
               THEN Append(status, "disconnected") ELSE status
  /\ handle' = "dropped"
  /\ event_rx' = <<>>
  /\ sup_pc' = "sleeping"
  /\ UNCHANGED << supervisor, env_api_key, attempts >>
  /\ UNCHANGED << emitVars, permVars >>
  /\ UNCHANGED << request, conn, connect_result, link, wire_out,
                  handshake_reply, wire_in, channels, ack_rx, pump, pending,
                  exit_reason, yielded, ended, held, call, call_log >>

\* tokio::time::sleep(Duration::from_secs(5)).await is over and the loop goes
\* round (hub/src/lib.rs:139-141, event-log/src/lib.rs:88-90).
sup_sleep_done ==
  /\ sup_pc = "sleeping"
  /\ sup_pc' = "loop_top"
  /\ status' = <<>>
  /\ UNCHANGED << supervisor, env_api_key, attempts >>
  /\ UNCHANGED << emitVars, permVars >>
  /\ UNCHANGED coreVars

Connecting == sup_pc = "connecting"

SupervisorSteps ==
  \/ sup_subscribe
  \/ sup_connect_err
  \/ sup_connected
  \/ sup_next
  \/ sup_break
  \/ sup_stream_end
  \/ sup_leave
  \/ sup_sleep_done

SupervisorNext ==
  \/ Connecting /\ connect_async
  \/ Connecting /\ send_subscribe
  \/ \E reply \in Reads : Connecting /\ connect_handshake(reply)
  \/ link_break
  \/ \E msg \in ReadsFrom(CoreReads) : inbound(msg)
  \/ send_resume
  \/ outbound
  \/ sup_subscribe
  \/ sup_connect_err
  \/ sup_connected
  \/ sup_next
  \/ sup_break
  \/ sup_stream_end
  \/ sup_leave
  \/ sup_sleep_done

\* The task of the loop is scheduled again and again and its sleep ends.
SupervisorSpec ==
  SupInit /\ [][SupervisorNext]_vars /\ WF_vars(SupervisorSteps)

\* ------------------------------------------------------------------ emit
\* client.rs:153-182  Notif::emit, the one-shot publish call: POST
\* {server}/api/v1/emit with the EmitRequest as JSON, then the status and the
\* body of the response decide what is returned.
NotifError_auth(message) == [variant |-> "Auth", message |-> message]
\* Http wraps the reqwest::Error it was made from (error.rs:28-29).
NotifError_Http(source) == [variant |-> "Http", source |-> source]

EmitTopics == {"orders.created", "claude.permission.response"}
EmitRequest(topic, data) == [topic |-> topic, data |-> data]

\* types.rs:9-20
EmitResponse(id, topic) ==
  [id |-> id, topic |-> topic, created_at |-> "ts1"]

\* A response body: the text response.text() gives (None when reading the
\* body fails) and the EmitResponse response.json() decodes from it (None
\* when it does not decode).
Body(text, json) == [text |-> text, json |-> json]
BodyAccepted == Body(Some("{id,topic,created_at}"),
                     Some(EmitResponse("evt_1", "orders.created")))
BodyMessage == Body(Some("invalid api key"), None)
BodyEmpty == Body(Some(""), None)
BodyUnreadable == Body(None, None)
Bodies == {BodyAccepted, BodyMessage, BodyEmpty, BodyUnreadable}

\* Status codes a response may carry, on both sides of every range the code
\* tells apart.
Statuses == {199, 200, 201, 204, 299, 300, 304, 400, 401, 403, 404, 429,
             500, 503}

\* What send().await gives: a response, or a reqwest::Error.
Response(code, body) ==
  [kind |-> "Response", status |-> code, body |-> body]
SendError == [kind |-> "SendError", error |-> "connect"]
Replies ==
  {Response(s, b) : s \in Statuses, b \in Bodies} \cup {SendError}

\* StatusCode::is_success (client.rs:172): 200..=299
is_success(code) == 200 <= code /\ code <= 299

\* emit_outcome that reports 401 like any other failure status.
emit_outcome_401_as_api(reply) ==
  IF reply.kind = "SendError"
  THEN Err(NotifError_Http(reply.error))
  ELSE IF ~is_success(reply.status)
  THEN Err(NotifError_api(reply.status, unwrap_or(reply.body.text, "")))
  ELSE IF reply.body.json = None
  THEN Err(NotifError_Http("decode"))
  ELSE Ok(reply.body.json[1])

\* client.rs:162-181  what emit returns for what send().await gave:
\* `?` on the send error; for a status that is not a success the body text
\* (unwrap_or_default) becomes the message of auth(..) for 401 and of
\* api(status, ..) otherwise; for a success the body is decoded, `?` on the
\* decode error.
emit_outcome(reply) ==
  IF reply.kind = "SendError"
  THEN Err(NotifError_Http(reply.error))
  ELSE IF ~is_success(reply.status)
  THEN LET message == unwrap_or(reply.body.text, "")
       IN  IF reply.status = 401
           THEN Err(NotifError_auth(message))
           ELSE Err(NotifError_api(reply.status, message))
  ELSE IF reply.body.json = None
  THEN Err(NotifError_Http("decode"))
  ELSE Ok(reply.body.json[1])

\* client.rs:153-169  emit is called and the request is sent.
emit(topic, data) ==
  /\ emit_pc \in {"idle", "done"}
  /\ emit_pc' = "awaiting"
  /\ emit_request' = Some(EmitRequest(topic, data))
  /\ emit_reply' = None
  /\ emit_result' = None
  /\ UNCHANGED << coreVars, supVars >>

\* client.rs:169-181  send().await is over and emit returns.
emit_resume(reply) ==
  /\ emit_pc = "awaiting"
  /\ emit_pc' = "done"
  /\ emit_reply' = Some(reply)
  /\ emit_result' = Some(emit_outcome(reply))
  /\ UNCHANGED emit_request
  /\ UNCHANGED << coreVars, supVars >>

EmitNext ==
  \/ /\ \E topic \in EmitTopics, data \in {"d1", JsonNull} : emit(topic, data)
     /\ UNCHANGED permVars
  \/ /\ \E reply \in Replies : emit_resume(reply)
     /\ UNCHANGED permVars

EmitSpec == Init /\ [][EmitNext]_vars

\* ------------------------------------------------------------------ properties
\* Items the task has pushed or is suspended pushing, oldest first: those
\* already pulled, those buffered, the one in flight.
InFlight ==
  IF pending # None /\ pending[1].push # None THEN pending[1].push ELSE <<>>

Delivered == yielded \o event_rx \o InFlight

\* A frame of type "event" that carries both id and topic, told from the raw
\* JSON object.
IsEventFrame(m) ==
  /\ m.kind = "Text"
  /\ {"type", "id", "topic"} \subseteq DOMAIN m.json
  /\ m.json["type"] = "event"

EventFrames(frames) == SelectSeq(frames, IsEventFrame)

FrameIdTopics(frames) ==
  [i \in DOMAIN frames |-> << frames[i].json["id"], frames[i].json["topic"] >>]

ItemIdTopics(items) ==
  [i \in DOMAIN items |-> << items[i].value.id, items[i].value.topic >>]

IsOk(item) == item.tag = "Ok"
IsErr(item) == item.tag = "Err"

\* The task has read event frames only, possibly followed by the close frame
\* or the end of the stream, and the caller still holds the handle.
OnlyEventFramesRead ==
  /\ handle = "alive"
  /\ \A i \in DOMAIN wire_in :
       \/ IsEventFrame(wire_in[i])
       \/ i = Len(wire_in) /\ wire_in[i] \in {CloseFrame, StreamEnd}

C2_HandleDropClosesAckChannel ==
  (handle = "dropped" /\ held = {} /\ pump = "select" /\ ack_rx = <<>>)
    => ack_senders = 0

ManualAck == ~request.options.auto_ack

\* Ack and Nack frames among the frames written, in order.
AckFrames(frames) ==
  SelectSeq(frames, LAMBDA f : f.action \in {"ack", "nack"})

\* The frame the protocol prescribes for a decision:
\* {"action":"ack","id"} or {"action":"nack","id","retry_in"?}.
ExpectedFrame(ack_msg) ==
  IF ack_msg.tag = "Ack" THEN [action |-> "ack", id |-> ack_msg.id]
  ELSE IF ack_msg.retry_in = None
  THEN [action |-> "nack", id |-> ack_msg.id]
  ELSE [action |-> "nack", id |-> ack_msg.id, retry_in |-> ack_msg.retry_in[1]]

ExpectedFrames(msgs) == [i \in DOMAIN msgs |-> ExpectedFrame(msgs[i])]

\* Decisions of all completed calls, and of those that were enqueued, in
\* order of completion.
Decisions == [i \in DOMAIN call_log |-> call_log[i].msg]

Enqueued ==
  LET done == SelectSeq(call_log, LAMBDA c : c.outcome = "enqueued")
  IN  [i \in DOMAIN done |-> done[i].msg]

\* C3 as stated: with auto-ack disabled, once nothing is queued or in flight
\* the Ack/Nack frames on the wire are exactly the frames of the ack()/nack()
\* calls made, one frame for each call.
C3_EveryCallOneFrame ==
  (ManualAck /\ call = None /\ ack_rx = <<>>)
    => AckFrames(wire_out) = ExpectedFrames(Decisions)

\* C3 amended: with auto-ack disabled, while the loop runs and the transport
\* is up every call made has enqueued its decision and every enqueued decision
\* is either on the wire as exactly one frame with its id (and retry_in) or
\* still queued; and in every state each Ack/Nack frame on the wire is the
\* frame of an enqueued decision, with no more frames than decisions.
C3_DequeuedCallOneFrame ==
  ManualAck =>
    /\ (pump \in {"select", "sending"} /\ link = "up") =>
         /\ Enqueued = Decisions
         /\ AckFrames(wire_out) \o ExpectedFrames(ack_rx)
              = ExpectedFrames(Decisions)
    /\ Len(AckFrames(wire_out)) <= Len(Enqueued)
    /\ \A i \in DOMAIN AckFrames(wire_out) :
         \E j \in DOMAIN Enqueued :
           AckFrames(wire_out)[i] = ExpectedFrame(Enqueued[j])

C3_Witness ==
  /\ ManualAck
  /\ pump = "select"
  /\ link = "up"
  /\ Len(AckFrames(wire_out)) = 2
  /\ \E i, j \in DOMAIN wire_out :
       /\ wire_out[i] = [action |-> "ack", id |-> "e1"]
       /\ wire_out[j] = [action |-> "nack", id |-> "e1", retry_in |-> "5m"]

\* C4: with auto-ack enabled no ack()/nack() call enqueues a decision or has
\* a frame sent: the Acknowledgment Channel is empty, no call is suspended on
\* it, every completed call was a no-op, and the only frame written is the
\* Subscribe frame.
C4_AutoAckSendsNothing ==
  request.options.auto_ack =>
    /\ ack_rx = <<>>
    /\ call = None
    /\ \A i \in DOMAIN call_log : call_log[i].outcome = "noop"
    /\ Len(wire_out) <= 1
    /\ \A i \in DOMAIN wire_out : wire_out[i].action = "subscribe"

C4_Witness ==
  /\ request.options.auto_ack
  /\ pump = "select"
  /\ link = "up"
  /\ Len(call_log) = 2
  /\ call_log[1].msg.tag = "Ack"
  /\ call_log[2].msg.tag = "Nack"

HasType(m, t) ==
  /\ m.kind = "Text"
  /\ "type" \in DOMAIN m.json
  /\ m.json["type"] = t

IsErrorFrame(m) == HasType(m, "error")
IsSubscribed(m) == HasType(m, "subscribed")

NothingSpawned ==
  /\ handle = "none"
  /\ ~channels
  /\ pump = "none"
  /\ event_rx = <<>>
  /\ ack_rx = <<>>
  /\ wire_in = <<>>
  /\ yielded = <<>>

\* C6: when the one reply read during the handshake is an error frame,
\* connect has returned an Api error carrying the message of the frame, no
\* handle exists, no channel was created and no task was spawned.
C6_HandshakeErrorFrame ==
  (handshake_reply # None /\ IsErrorFrame(handshake_reply[1])) =>
    /\ conn = "Failed"
    /\ connect_result # None
    /\ connect_result[1].tag = "Err"
    /\ connect_result[1].error.variant = "Api"
    /\ "message" \in DOMAIN handshake_reply[1].json =>
         connect_result[1].error.message = handshake_reply[1].json["message"]
    /\ NothingSpawned

C6_Witness ==
  /\ handshake_reply = Some(ErrorWithMessage)
  /\ connect_result = Some(Err(NotifError_api(400, "topic not allowed")))

\* C7: a handshake reply other than Subscribed makes connect fail, and once
\* connect has failed (on any path) it stays failed with no channel, no task
\* and no handle, one Subscribe frame written at most and nothing read after
\* the reply.
C7_HandshakeFailure ==
  /\ (handshake_reply # None /\ ~IsSubscribed(handshake_reply[1])) =>
       /\ conn = "Failed"
       /\ connect_result # None
       /\ connect_result[1].tag = "Err"
  /\ conn = "Failed" =>
       /\ NothingSpawned
       /\ Len(wire_out) <= 1
       /\ link \in {"none", "closed"}

C7_Witness ==
  /\ handshake_reply = Some(EventFull)
  /\ conn = "Failed"
  /\ connect_result =
       Some(Err(NotifError_websocket(<<"unexpected message type: ", "event">>)))

\* First Ok item of a sequence of items, as a sequence of at most one element.
FirstOk(items) ==
  LET ok == SelectSeq(items, IsOk) IN IF ok = <<>> THEN <<>> ELSE << ok[1] >>

FirstEventFrame(frames) ==
  LET ev == EventFrames(frames) IN IF ev = <<>> THEN <<>> ELSE << ev[1] >>

IsUndecodable(m) == m.kind = "Text" /\ "type" \notin DOMAIN m.json
IsMalformedEvent(m) == HasType(m, "event") /\ ~IsEventFrame(m)
ProducesItem(m) ==
  IsEventFrame(m) \/ IsMalformedEvent(m) \/ IsErrorFrame(m) \/ IsUndecodable(m)
  \/ m.kind = "Err"

\* What the protocol description says a frame becomes, told from the raw
\* frame: Ok with id and topic, or Err with the kind of error (and the
\* message of the broker for an error frame).
ExpectedShape(m) ==
  IF IsEventFrame(m) THEN << "Ok", m.json["id"], m.json["topic"] >>
  ELSE IF IsErrorFrame(m)
  THEN << "Err", "Api",
          IF "message" \in DOMAIN m.json THEN m.json["message"]
          ELSE "unknown error" >>
  ELSE IF IsUndecodable(m) THEN << "Err", "Serialization" >>
  ELSE << "Err", "WebSocket" >>

ExpectedShapes(frames) ==
  LET producing == SelectSeq(frames, ProducesItem)
  IN  [i \in DOMAIN producing |-> ExpectedShape(producing[i])]

ItemShape(item) ==
  IF IsOk(item) THEN << "Ok", item.value.id, item.value.topic >>
  ELSE IF item.error.variant = "Api"
  THEN << "Err", "Api", item.error.message >>
  ELSE << "Err", item.error.variant >>

ItemShapes(items) == [i \in DOMAIN items |-> ItemShape(items[i])]

Last(seq) == seq[Len(seq)]
LoopRunning == pump \in {"select", "sending"}
EndsStream(m) == m \in {CloseFrame, StreamEnd}

\* The caller holds the handle and the task has read only event frames, error
\* frames and undecodable text, possibly followed by the close frame or the
\* end of the stream.
EventsAndErrorsRead ==
  /\ handle = "alive"
  /\ \A i \in DOMAIN wire_in :
       \/ IsEventFrame(wire_in[i])
       \/ IsErrorFrame(wire_in[i])
       \/ IsUndecodable(wire_in[i])
       \/ i = Len(wire_in) /\ EndsStream(wire_in[i])

\* C9: each error frame and each undecodable text frame read by the running
\* task has become exactly one Err item at its place among the items (with the
\* message of the broker for an error frame), the loop is still running after
\* it, and the event frames read before and after it are there as Ok items in
\* the order read.
C9_ErrorFramesNonFatal ==
  EventsAndErrorsRead =>
    /\ ItemShapes(Delivered) = ExpectedShapes(wire_in)
    /\ (wire_in # <<>> /\ ~EndsStream(Last(wire_in))) => LoopRunning
    /\ ended => ItemShapes(yielded) = ExpectedShapes(wire_in)

C9_Witness ==
  /\ wire_in = << ErrorWithMessage, EventFull >>
  /\ handle = "alive"
  /\ Len(yielded) = 2
  /\ yielded[1] = Err(NotifError_api(400, "topic not allowed"))
  /\ IsOk(yielded[2])
  /\ yielded[2].value.id = "e1"
  /\ LoopRunning

\* The caller holds the handle and the task has read only frames of type
\* "event", with or without id and topic, possibly followed by the close
\* frame or the end of the stream.
EventTypeFramesRead ==
  /\ handle = "alive"
  /\ \A i \in DOMAIN wire_in :
       \/ HasType(wire_in[i], "event")
       \/ i = Len(wire_in) /\ EndsStream(wire_in[i])

\* C10: each event frame lacking id or topic has become exactly one Err item
\* at its place among the items, never an Ok item and never nothing, the loop
\* is still running after it, and the other event frames are there as Ok
\* items with their id and topic in the order read.
C10_MalformedEventIsErr ==
  EventTypeFramesRead =>
    /\ ItemShapes(Delivered) = ExpectedShapes(wire_in)
    /\ Len(Delivered) = Len(SelectSeq(wire_in, LAMBDA m : HasType(m, "event")))
    /\ \A i \in DOMAIN Delivered :
         IsOk(Delivered[i]) <=> IsEventFrame(wire_in[i])
    /\ (wire_in # <<>> /\ ~EndsStream(Last(wire_in))) => LoopRunning

C10_Witness ==
  /\ EventTypeFramesRead
  /\ Len(wire_in) = 2
  /\ wire_in[1] \in {EventNoId, EventNoTopic}
  /\ IsEventFrame(wire_in[2])
  /\ Len(yielded) = 2
  /\ IsErr(yielded[1])
  /\ IsOk(yielded[2])
  /\ LoopRunning

\* C11: neither channel ever holds more items than its capacity, and while
\* the caller holds the handle every item the frames read call for, Ok or
\* Err, has been pulled, is buffered, or is the one the task is suspended
\* pushing because the Event Channel is full: none was discarded.
C11_BoundedChannelsNoDrop ==
  /\ Len(event_rx) <= ChannelBound
  /\ Len(ack_rx) <= ChannelBound
  /\ handle = "alive" => ItemShapes(Delivered) = ExpectedShapes(wire_in)
  /\ pump = "sending" =>
       /\ pending # None
       /\ pending[1].push # None

C11_Witness ==
  /\ handle = "alive"
  /\ link = "up"
  /\ pump = "sending"
  /\ Len(event_rx) = ChannelBound
  /\ Len(wire_in) = ChannelBound + 1
  /\ InFlight # <<>>

\* What ended the loop, told from the frames read and the state of the caller:
\* the close frame or the end of the stream was the last thing read, a
\* transport error was, or the handle is gone (a push of an event failed, or
\* the Acknowledgment Channel reported that no sender is left).
ExitCauseHolds ==
  exit_reason # None =>
    \/ /\ exit_reason[1] = "close_frame"
       /\ wire_in # <<>> /\ Last(wire_in) = CloseFrame
    \/ /\ exit_reason[1] = "stream_end"
       /\ wire_in # <<>> /\ Last(wire_in) = StreamEnd
    \/ /\ exit_reason[1] = "transport_error"
       /\ wire_in # <<>> /\ Last(wire_in).kind = "Err"
    \/ /\ exit_reason[1] = "receiver_dropped"
       /\ handle = "dropped"
       /\ wire_in # <<>> /\ IsEventFrame(Last(wire_in))
    \/ /\ exit_reason[1] = "ack_channel_closed"
       /\ handle = "dropped"

\* C12: the loop has ended exactly when one reason for it is recorded, the
\* reason is a close of the connection, a transport error or the drop of the
\* handle, and from then on the task stays ended with the same reason: it
\* reads no frame, writes no frame, pushes no item and holds none in flight.
C12_TerminatesOnceForever ==
  /\ [](pump = "done" <=> exit_reason # None)
  /\ []ExitCauseHolds
  /\ [][pump = "done" =>
          /\ pump' = "done"
          /\ exit_reason' = exit_reason
          /\ wire_in' = wire_in
          /\ wire_out' = wire_out
          /\ Len(event_rx') <= Len(event_rx)
          /\ pending' = None
          /\ ack_rx' = <<>>]_vars

C12_Witness ==
  /\ pump = "done"
  /\ exit_reason = Some("close_frame")
  /\ handle = "alive"
  /\ \E i \in DOMAIN call_log : call_log[i].outcome = "discarded"
  /\ ended

\* The caller keeps pulling: poll_next is taken again and again while it can
\* be (a for-await / while-let loop over the stream).
PullSpec == FrameSpec /\ WF_vars(poll_next)

\* C13: once the loop has ended, a caller that keeps pulling and holds the
\* handle is told the end of the sequence; until then what it has pulled
\* followed by what is still buffered stays the same sequence, so pulling
\* hands out the buffered items in order; the end of the sequence is reported
\* only when the loop has ended and nothing is buffered, and after it nothing
\* more is yielded.
C13_DrainThenEnd ==
  /\ (pump = "done") ~> (ended \/ handle = "dropped")
  /\ [](ended => pump = "done" /\ event_rx = <<>>)
  /\ [][(pump = "done" /\ handle' = "alive") =>
          yielded' \o event_rx' = yielded \o event_rx]_vars
  /\ [][ended => ended' /\ yielded' = yielded /\ event_rx' = <<>>]_vars

C13_Witness ==
  /\ ended
  /\ exit_reason = Some("transport_error")
  /\ Len(wire_in) = 2
  /\ Len(yielded) = 2
  /\ IsOk(yielded[1])
  /\ IsErr(yielded[2])

\* Decisions the task took off the Acknowledgment Channel whose write failed:
\* enqueued, no longer queued, and not on the wire.
FailedWrites == Len(Enqueued) - Len(ack_rx) - Len(AckFrames(wire_out))

\* C14: a transport error met while writing an Ack or Nack frame ends the
\* loop, as one met while reading does: while the loop is running no write
\* has failed, and once a read has failed the loop has ended or is pushing the
\* Err item that reports it.
C14_TransportErrorTerminal ==
  /\ (LoopRunning /\ call = None) => FailedWrites = 0
  /\ (wire_in # <<>> /\ Last(wire_in).kind = "Err") =>
       \/ pump = "done" /\ exit_reason = Some("transport_error")
       \/ pump = "sending" /\ InFlight # <<>> /\ IsErr(InFlight[1])

\* The Subscribe frame the protocol prescribes for the request: action,
\* every topic asked for, and the options, with "from" and "group" present
\* only when they were given.
ExpectedSubscribe ==
  LET o == request.options
      opts == IF o.from = None /\ o.group = None
              THEN [auto_ack |-> o.auto_ack]
              ELSE IF o.from = None
              THEN [auto_ack |-> o.auto_ack, group |-> o.group[1]]
              ELSE IF o.group = None
              THEN [auto_ack |-> o.auto_ack, from |-> o.from[1]]
              ELSE [auto_ack |-> o.auto_ack, from |-> o.from[1],
                    group |-> o.group[1]]
  IN  [action |-> "subscribe", topics |-> request.topics, options |-> opts]

\* C15: what the client has written on the connection is the Subscribe frame
\* of the request followed by Ack and Nack frames only; the Subscribe frame
\* is there as soon as the handshake is awaited, and an Ack or Nack frame is
\* there only after Subscribed was the reply.
C15_SubscribeThenAcksOnly ==
  /\ wire_out # <<>> =>
       /\ wire_out[1] = ExpectedSubscribe
       /\ \A i \in 2..Len(wire_out) : wire_out[i].action \in {"ack", "nack"}
  /\ conn \in {"Handshaking", "Active"} => wire_out # <<>>
  /\ conn \in {"Init", "Connected"} => wire_out = <<>>
  /\ Len(wire_out) > 1 =>
       /\ conn = "Active"
       /\ handshake_reply # None
       /\ IsSubscribed(handshake_reply[1])

C15_Witness ==
  /\ Len(request.topics) = 2
  /\ request.options.group = Some("worker-pool")
  /\ Len(wire_out) = 3
  /\ wire_out[1].topics = << "orders.*", "agents.>" >>
  /\ wire_out[1].options.group = "worker-pool"
  /\ wire_out[2].action = "ack"
  /\ wire_out[3].action = "nack"

\* A frame the Active connection has no use for: decodable text of a type
\* other than "event" and "error", or a frame that is neither text nor close.
IsIgnoredFrame(m) ==
  \/ /\ m.kind = "Text"
     /\ "type" \in DOMAIN m.json
     /\ m.json["type"] \notin {"event", "error"}
  \/ m.kind \notin {"Text", "Close", "Err", "End"}

\* C16: the step in which the task reads such a frame changes nothing but
\* the record of frames read: nothing is pushed or left in flight, nothing
\* is written, nothing is taken off the Acknowledgment Channel, and the task
\* is back at select! with the connection as it was.
C16_IgnoredFrameNoEffect ==
  [][(wire_in' # wire_in /\ IsIgnoredFrame(Last(wire_in'))) =>
       /\ event_rx' = event_rx
       /\ pending' = None
       /\ yielded' = yielded
       /\ wire_out' = wire_out
       /\ ack_rx' = ack_rx
       /\ pump' = "select"
       /\ exit_reason' = None
       /\ link' = link]_vars

C16_Witness ==
  /\ wire_in = << SubscribedFrame, BinaryFrame >>
  /\ pump = "select"
  /\ handle = "alive"
  /\ Delivered = <<>>
  /\ Len(wire_out) = 1

\* A round of the loop is over: connect failed, or the sequence of the handle
\* has ended.
AttemptOver == conn = "Failed" \/ ended

\* C17: whenever connect has failed or the sequence of a handle has ended,
\* the loop comes to call connect again; every call it makes is for the same
\* topics and options, and the Subscribe frame of every connection is the one
\* for them.
C17_SupervisorNeverGivesUp ==
  /\ AttemptOver ~> (sup_pc = "connecting" /\ conn = "Init")
  /\ [](request = SupervisorRequest(supervisor))
  /\ [](wire_out # <<>> => wire_out[1] = ExpectedSubscribe)
  /\ [][attempts' >= attempts]_vars

C17_Witness ==
  /\ attempts = MaxAttempts
  /\ sup_pc = "streaming"
  /\ wire_out = << ExpectedSubscribe >>
  /\ yielded # <<>>
  /\ IsOk(yielded[1])

Emitted(signal) == \E i \in DOMAIN status : status[i] = signal

\* C18: in the event_log loop "connected" has been emitted only when the
\* handshake of the round succeeded, and when the loop sleeps before its next
\* connect after a round that failed in the handshake or whose sequence has
\* ended, "error" or "disconnected" has been emitted.
C18_StatusOnEveryTransition ==
  supervisor = "event_log" =>
    /\ Emitted("connected") =>
         /\ handshake_reply # None
         /\ IsSubscribed(handshake_reply[1])
         /\ connect_result = Some(Ok("EventStream"))
    /\ (sup_pc = "sleeping" /\ AttemptOver) =>
         Emitted("error") \/ Emitted("disconnected")

Count(seq, Test(_)) == Cardinality({i \in DOMAIN seq : Test(seq[i])})

EventIds == {"e1", "e2"}

\* ack() calls completed on the event with the given id, Ack decisions for
\* it that are queued, and Ack frames for it that are on the wire.
AckCalls(id) == Count(call_log, LAMBDA c : c.msg = Ack(id))
AcksQueued(id) == Count(ack_rx, LAMBDA m : m = Ack(id))
AcksWritten(id) == Count(wire_out, LAMBDA f : f = [action |-> "ack", id |-> id])

\* C19: with auto-ack disabled every completed ack()/nack() call has returned
\* Ok(()), and while the loop runs every one of them has enqueued its
\* decision, a repeated one included: with the transport up, the Ack
\* decisions queued or written for an event are as many as the ack() calls
\* completed on it.
C19_RepeatedAckEnqueuesAgain ==
  ManualAck =>
    /\ \A i \in DOMAIN call_log : call_log[i].returned = Ok("()")
    /\ LoopRunning =>
         \A i \in DOMAIN call_log : call_log[i].outcome = "enqueued"
    /\ (LoopRunning /\ link = "up") =>
         \A id \in EventIds : AcksQueued(id) + AcksWritten(id) = AckCalls(id)

C19_Witness ==
  /\ ManualAck
  /\ LoopRunning
  /\ link = "up"
  /\ Len(call_log) = 2
  /\ call_log[1].msg = Ack("e1")
  /\ call_log[2].msg = Ack("e1")
  /\ AcksQueued("e1") + AcksWritten("e1") = 2

\* Completed or suspended ack()/nack() calls on the event with the given id,
\* and the decisions for it that are queued or written.
CallsOn(id) ==
  Count(call_log, LAMBDA c : c.msg.id = id)
  + (IF call # None /\ call[1].id = id THEN 1 ELSE 0)
DecisionsFor(id) ==
  Count(ack_rx, LAMBDA m : m.id = id)
  + Count(AckFrames(wire_out), LAMBDA f : f.id = id)

\* C20 as stated: with auto-ack disabled no event has more than one decision
\* queued or written, whatever calls the caller makes on it.
C20_AtMostOneDecisionPerEvent ==
  ManualAck => \A id \in EventIds : DecisionsFor(id) <= 1

\* C20 amended: with auto-ack disabled an event has at most as many decisions
\* queued or written as ack()/nack() calls were made on it, so at most one
\* when the caller made at most one call, and none when it made none.
C20_OneDecisionPerCall ==
  ManualAck => \A id \in EventIds : DecisionsFor(id) <= CallsOn(id)

C20_Witness ==
  /\ ManualAck
  /\ CallsOn("e1") = 2
  /\ DecisionsFor("e1") = 2
  /\ CallsOn("e2") = 0
  /\ \E e \in held : e.id = "e2"
  /\ \E i, j \in DOMAIN wire_out :
       wire_out[i].action = "ack" /\ wire_out[j].action = "nack"

\* ------------------------------------------------------------------ event fields
\* The value of an optional field of an event frame, told from the raw JSON
\* object: the value in the frame, or the default when the key is absent.
FrameField(m, key, default) ==
  IF key \in DOMAIN m.json THEN m.json[key] ELSE default

OkItems(items) == SelectSeq(items, IsOk)

\* C21: while the caller holds the handle, the k-th Ok item delivered is the
\* k-th event frame read, with id, topic and every optional field that the
\* frame carries taken over unchanged, and with payload null, attempt 1 and
\* max_attempts 3 where the frame omits them.
C21_AbsentFieldsDefaulted ==
  handle = "alive" =>
    LET frames == EventFrames(wire_in)
        items == OkItems(Delivered)
    IN  /\ Len(items) = Len(frames)
        /\ \A k \in DOMAIN items :
             LET e == items[k].value
                 m == frames[k]
             IN  /\ e.id = m.json["id"]
                 /\ e.topic = m.json["topic"]
                 /\ e.data = FrameField(m, "data", "null")
                 /\ e.attempt = FrameField(m, "attempt", 1)
                 /\ e.max_attempts = FrameField(m, "max_attempts", 3)
                 /\ "timestamp" \in DOMAIN m.json =>
                      e.timestamp = m.json["timestamp"]

\* An event frame without payload, attempt and max_attempts and one with all
\* of them were both pulled by the caller.
C21_Witness ==
  /\ handle = "alive"
  /\ wire_in = << EventBare, EventFull >>
  /\ Len(yielded) = 2
  /\ yielded[1].value.data = "null"
  /\ yielded[1].value.attempt = 1
  /\ yielded[1].value.max_attempts = 3
  /\ yielded[2].value.data = "d1"
  /\ yielded[2].value.attempt = 4

\* C30: an event frame whose attempt exceeds its max_attempts is delivered
\* as an Ok item like any other, with attempt and max_attempts as received:
\* it is not rejected, not clamped and not turned into an Err item.
C30_AttemptAboveMaxPassedThrough ==
  handle = "alive" =>
    LET frames == EventFrames(wire_in)
        items == OkItems(Delivered)
    IN  \A k \in DOMAIN frames :
          LET m == frames[k]
          IN  ({"attempt", "max_attempts"} \subseteq DOMAIN m.json
               /\ m.json["attempt"] > m.json["max_attempts"]) =>
                /\ k \in DOMAIN items
                /\ items[k].value.id = m.json["id"]
                /\ items[k].value.attempt = m.json["attempt"]
                /\ items[k].value.max_attempts = m.json["max_attempts"]
                /\ Len(SelectSeq(Delivered, IsErr))
                     = Len(SelectSeq(wire_in, ProducesItem)) - Len(frames)

\* The caller pulled an event whose attempt (4) exceeds its max_attempts (2).
C30_Witness ==
  /\ handle = "alive"
  /\ wire_in # <<>>
  /\ wire_in[1] = EventFull
  /\ yielded # <<>>
  /\ IsOk(yielded[1])
  /\ yielded[1].value.attempt > yielded[1].value.max_attempts

\* ------------------------------------------------------------------ nack without delay
\* A decision made by nack(None).
IsBareNack(ack_msg) == ack_msg.tag = "Nack" /\ ack_msg.retry_in = None

C23_NonSuccessStatusIsError ==
  (emit_pc = "done" /\ emit_reply[1].kind = "Response") =>
    LET s == emit_reply[1].status
        body == emit_reply[1].body
        text == IF body.text = None THEN "" ELSE body.text[1]
        r == emit_result[1]
    IN  /\ s \notin 200..299 =>
             /\ r.tag = "Err"
             /\ s = 401 => r.error.variant = "Auth"
             /\ s # 401 =>
                  /\ r.error.variant = "Api"
                  /\ r.error.status = s
                  /\ r.error.message = text
        /\ r.tag = "Ok" =>
             /\ s \in 200..299
             /\ body.json = Some(r.value)

\* emit has returned the authentication error for a 401 response.
C23_Witness ==
  /\ emit_pc = "done"
  /\ emit_reply = Some(Response(401, BodyMessage))
  /\ emit_result = Some(Err(NotifError_auth("invalid api key")))

\* ------------------------------------------------------------------ how the sequence ends
\* C26: while the caller holds the handle, a transport read error is the
\* last thing the task reads and the last item it delivers is the one Err
\* item that describes this error; after a close frame or the end of the
\* inbound stream the loop is over and the items delivered are exactly those
\* of the frames read before, so no Err item stands for the ending itself.
\* In both cases poll_next reports the end only after the last item.
C26_ErrItemOnlyForReadError ==
  (handle = "alive" /\ wire_in # <<>>) =>
    LET m == Last(wire_in)
        before == SubSeq(wire_in, 1, Len(wire_in) - 1)
    IN  /\ m.kind = "Err" =>
             /\ pump \in {"sending", "done"}
             /\ pump = "done" => exit_reason = Some("transport_error")
             /\ Len(Delivered) = Len(SelectSeq(before, ProducesItem)) + 1
             /\ Last(Delivered) = Err(NotifError_websocket(<< m.error >>))
             /\ ended => Last(yielded) = Last(Delivered)
        /\ EndsStream(m) =>
             /\ pump = "done"
             /\ Len(Delivered) = Len(SelectSeq(before, ProducesItem))
             /\ ItemShapes(Delivered) = ExpectedShapes(before)
             /\ ended => yielded = Delivered

\* The caller pulled an event and then the Err item of a read error, and was
\* then told the sequence is over.
C26_Witness ==
  /\ handle = "alive"
  /\ Len(wire_in) = 2
  /\ IsEventFrame(wire_in[1])
  /\ wire_in[2] = ReadError
  /\ ended
  /\ Len(yielded) = 2
  /\ IsErr(yielded[2])

\* ------------------------------------------------------------------ what ack() returns
\* Every call that has returned, returned Ok(()); decisions are discarded only
\* once the loop is over, when nothing is queued any more; and the frames
\* written and the decisions queued together never outnumber the decisions
\* that were enqueued.
ReturnedOkNothingLeft ==
  /\ \A i \in DOMAIN call_log :
       /\ call_log[i].returned = Ok("()")
       /\ call_log[i].outcome = "discarded" => pump = "done"
  /\ pump = "done" => ack_rx = <<>>
  /\ Len(AckFrames(wire_out)) + Len(ack_rx) <= Len(Enqueued)

\* A call that returns once the loop is over is discarded and returns
\* Ok(()), and it changes neither the frames written nor the queue.
DiscardedAfterTermination ==
  (pump = "done" /\ call_log' # call_log) =>
    /\ Last(call_log').outcome = "discarded"
    /\ Last(call_log').returned = Ok("()")
    /\ wire_out' = wire_out
    /\ ack_rx' = ack_rx

\* C27: ack() and nack() return Ok(()) in every state; a call made or
\* resumed after the loop has ended (close frame, broken connection, handle
\* dropped) has its decision discarded, writes no frame and queues nothing,
\* and still returns Ok(()).
C27_AckAlwaysReturnsOk ==
  []ReturnedOkNothingLeft /\ [][DiscardedAfterTermination]_vars

\* After a close frame ended the loop the caller acknowledged an event it
\* held: the call returned Ok(()), the decision was discarded, no Ack frame
\* was written.
C27_Witness ==
  /\ pump = "done"
  /\ exit_reason = Some("close_frame")
  /\ call_log # <<>>
  /\ Last(call_log).outcome = "discarded"
  /\ Last(call_log).returned = Ok("()")
  /\ AckFrames(wire_out) = <<>>

\* ------------------------------------------------------------------ pull-then-ack consumer
\* examples/subscribe.rs:17-45  the consumer of the SDK example: it subscribes
\* with auto-ack disabled and then runs
\*   while let Some(result) = stream.next().await { .. event.ack().await?; .. }
\* so it pulls the next item only when ack() for the event pulled last has
\* returned.
WorkerRequest ==
  [topics |-> << "orders.*" >>,
   options |-> [auto_ack |-> FALSE, from |-> Some("latest"), group |-> None]]

WorkerInit ==
  /\ supervisor = "worker"
  /\ sup_pc = "main"
  /\ env_api_key = Some(<< "nsh_", "k1" >>)
  /\ status = <<>>
  /\ attempts = 0
  /\ Fresh(WorkerRequest)
  /\ NoEmit
  /\ NoPerm

\* Ok items the consumer has pulled, and whether the one pulled last still
\* waits for its ack() call.
EventsPulled == Len(SelectSeq(yielded, IsOk))
AckDue == EventsPulled > Len(call_log) + (IF call = None THEN 0 ELSE 1)

\* examples/subscribe.rs:28  stream.next().await
worker_next ==
  /\ supervisor = "worker"
  /\ call = None
  /\ ~AckDue
  /\ ~ended
  /\ poll_next

\* examples/subscribe.rs:37-38  event.ack().await? for the event just pulled
worker_ack ==
  /\ supervisor = "worker"
  /\ AckDue
  /\ ack(Last(SelectSeq(yielded, IsOk)).value)

WorkerNext ==
  \/ connect_async
  \/ send_subscribe
  \/ \E reply \in ReadsFrom({SubscribedFrame}) : connect_handshake(reply)
  \/ link_break
  \/ \E msg \in ReadsFrom(AckReads) : inbound(msg)
  \/ send_resume
  \/ outbound
  \/ worker_next
  \/ worker_ack
  \/ call_resume

WorkerSpec == WorkerInit /\ [][WorkerNext]_vars

\* The task is suspended pushing onto the full Event Channel while the
\* consumer is suspended enqueuing onto the full Acknowledgment Channel.
MutualWait ==
  /\ handle = "alive"
  /\ pump = "sending"
  /\ Len(event_rx) = ChannelBound
  /\ call # None
  /\ Len(ack_rx) = ChannelBound

\* C25: with auto-ack disabled and a consumer that acknowledges each event
\* before it pulls the next, the task and the consumer are never both
\* suspended, one on the full Event Channel and the other on the full
\* Acknowledgment Channel.
C25_NoMutualWait == ManualAck => ~MutualWait

\* ------------------------------------------------------------------ fairness of the loop
\* The subscription of AckSpec with a caller that never drops the handle,
\* under the scheduling the code relies on: tokio::select! polls its ready
\* branches in random order, so an arm that is ready again and again is
\* taken (SF on each arm; for the inbound arm as long as the broker has
\* event frames to send); a suspended send is resumed once it can be (WF);
\* and the consumer keeps pulling (WF on poll_next).  Nothing forces the
\* broker to close or the transport to break.
FairNext ==
  \/ connect_async
  \/ send_subscribe
  \/ \E reply \in ReadsFrom({SubscribedFrame}) : connect_handshake(reply)
  \/ link_break
  \/ \E msg \in ReadsFrom(AckReads) : inbound(msg)
  \/ send_resume
  \/ outbound
  \/ poll_next
  \/ \E e \in held : ack(e)
  \/ call_resume

FairSpec ==
  /\ AckInit
  /\ [][FairNext]_vars
  /\ SF_vars(outbound)
  /\ SF_vars(\E msg \in WellFormedEvents : inbound(msg))
  /\ WF_vars(send_resume)
  /\ WF_vars(call_resume)
  /\ WF_vars(poll_next)

\* C24: under fair scheduling and with a consumer that keeps pulling, a
\* queued decision is eventually dequeued and written unless the connection
\* is no longer open, the task never stays suspended on a push, and a frame
\* the broker has ready is eventually read: neither arm of the loop is
\* postponed forever by the other.
C24_NeitherArmStarves ==
  /\ \A n \in 0..MaxCalls :
       (ack_rx # <<>> /\ Len(AckFrames(wire_out)) = n)
         ~> (Len(AckFrames(wire_out)) > n \/ link # "up" \/ pump = "done")
  /\ (pump = "sending") ~> (pump # "sending")
  /\ \A n \in 0..(MaxFrames - 1) :
       (LoopRunning /\ Len(wire_in) = n /\ link = "up")
         ~> (Len(wire_in) > n \/ link # "up" \/ pump = "done")

\* Both arms were served with the connection open: the task has read as many
\* frames as the broker had, both decisions of the caller are written, and
\* the loop is still running.
C24_Witness ==
  /\ pump = "select"
  /\ link = "up"
  /\ Len(wire_in) = MaxFrames
  /\ Len(AckFrames(wire_out)) = MaxCalls
  /\ ack_rx = <<>>

\* ------------------------------------------------------------------ order of the two directions
\* The loop is at select! with the connection open, the decision of the
\* consumer for an event it has pulled is at the head of the queue, and the
\* broker has a further event ready.
ChoicePoint ==
  /\ handle = "alive"
  /\ pump = "select"
  /\ link = "up"
  /\ ack_rx # <<>>
  /\ Len(wire_in) < FrameBudget

\* The decision is written before the next event is read and pushed.
AckFirst ==
  /\ outbound
  /\ AckFrames(wire_out') = Append(AckFrames(wire_out), wire_frame(Head(ack_rx)))
  /\ wire_in' = wire_in
  /\ event_rx' = event_rx

\* The next event is read and pushed (or the task is suspended pushing it)
\* while the decision is still queued and unwritten.
EventFirst ==
  /\ \E msg \in WellFormedEvents : inbound(msg)
  /\ wire_out' = wire_out
  /\ ack_rx' = ack_rx
  /\ Len(event_rx') + (IF pending' = None THEN 0 ELSE 1) = Len(event_rx) + 1

\* C29: nothing orders the two directions: whenever the Ack for an event is
\* queued and the next event is ready, the loop can write the Ack before it
\* pushes the next event, and it can push the next event before it writes the
\* Ack.
C29_BothOrdersPossible ==
  ChoicePoint => (ENABLED AckFirst /\ ENABLED EventFirst)

\* The consumer has pulled and acknowledged the first event, its Ack is queued
\* and unwritten, and the second event has not been read yet.
C29_Witness ==
  /\ ChoicePoint
  /\ Len(wire_in) = 1
  /\ Len(yielded) = 1
  /\ IsOk(yielded[1])
  /\ ack_rx = << Ack(yielded[1].value.id) >>
  /\ AckFrames(wire_out) = <<>>

\* Either order has been taken from there: the Ack is on the wire and the
\* second event has not been read, or the second event is pushed and the Ack
\* is still queued.
C29_AckWrittenFirst ==
  /\ Len(wire_in) = 1
  /\ Len(yielded) = 1
  /\ IsOk(yielded[1])
  /\ AckFrames(wire_out) = << [action |-> "ack", id |-> yielded[1].value.id] >>
C29_EventPushedFirst ==
  /\ Len(wire_in) = 2
  /\ Len(yielded) = 1
  /\ IsOk(yielded[1])
  /\ Len(event_rx) = 1
  /\ ack_rx = << Ack(yielded[1].value.id) >>
  /\ AckFrames(wire_out) = <<>>

\* ------------------------------------------------------------------ push after the handle is dropped
\* With the handle dropped, the task reads a frame that produces an item, or
\* is resumed in the push it was suspended in: the push fails.
FailedPush ==
  /\ handle = "dropped"
  /\ \/ pump = "select" /\ wire_in' # wire_in /\ ProducesItem(Last(wire_in'))
     \/ pump = "sending" /\ pump' # "sending"

\* C28: once the handle is dropped, the first push the task attempts fails
\* and ends the loop, whatever the item: an Ok(Event), the Err of an error
\* frame, of a malformed event or of undecodable text.
C28_FailedPushEndsLoop == [][FailedPush => pump' = "done"]_vars

\* ------------------------------------------------------------------ supervisors and Err items
\* C31: a supervisor leaves its while-let loop, and so gives up the handle
\* and reconnects, only after the sequence has ended: an Err item it pulled
\* does not make it leave.
C31_ErrItemKeepsSubscription ==
  sup_pc \in {"leaving", "sleeping"} /\ conn = "Active" => ended

\* ------------------------------------------------------------------ one handle per supervisor
\* A supervisor that is not inside a subscription attempt holds no handle.
NoHandleBetweenAttempts ==
  sup_pc \in {"loop_top", "sleeping"} => handle # "alive"

\* The step in which a supervisor calls subscribe_with_options.
Reconnects == sup_pc = "loop_top" /\ sup_pc' = "connecting"

\* A new attempt follows an attempt that failed or whose handle was dropped
\* (or none at all), and it starts from the topics and options of the loop
\* and nothing else: no frame, no buffered item, no queued decision, no
\* handle and no task of the attempt before.
FreshAttempt ==
  /\ conn \in {"Init", "Failed"} \/ handle = "dropped"
  /\ handle # "alive"
  /\ request' = SupervisorRequest(supervisor)
  /\ conn' = "Init" /\ connect_result' = None /\ handshake_reply' = None
  /\ link' = "none" /\ wire_out' = <<>> /\ wire_in' = <<>>
  /\ ~channels' /\ event_rx' = <<>> /\ ack_rx' = <<>>
  /\ pump' = "none" /\ pending' = None /\ exit_reason' = None
  /\ handle' = "none" /\ yielded' = <<>> /\ ~ended' /\ held' = {}

\* C32: a supervisor holds at most one handle at a time: between attempts it
\* holds none, it calls connect again only after the previous attempt failed
\* or its handle was dropped (the sequence ended, or the loop was left), and
\* the new attempt takes over nothing but the topics and options.
C32_OneHandleAtATime ==
  []NoHandleBetweenAttempts /\ [][Reconnects => FreshAttempt]_vars

\* A supervisor has called connect a second time and the new attempt starts
\* from nothing but its topics and options.
C32_Witness ==
  /\ attempts = 2
  /\ sup_pc = "connecting"
  /\ conn = "Init"
  /\ handle = "none"
  /\ request = SupervisorRequest(supervisor)

\* C33: a subscription opened with subscribe(topics) has auto-ack enabled, no
\* starting position and no consumer group; the Subscribe frame it writes
\* carries the topics and auto_ack = true and has no from and no group key,
\* nothing else is written, and every event delivered or held by the caller
\* carries no acknowledgment sender.
C33_SubscribeUsesDefaults ==
  request = subscribe(request.topics) =>
    /\ request.options.auto_ack = TRUE
    /\ request.options.from = None
    /\ request.options.group = None
    /\ \A i \in DOMAIN wire_out :
         wire_out[i] = [action |-> "subscribe", topics |-> request.topics,
                        options |-> [auto_ack |-> TRUE]]
    /\ Len(wire_out) <= 1
    /\ \A i \in DOMAIN Delivered :
         IsOk(Delivered[i]) => Delivered[i].value.ack_tx = None
    /\ \A e \in held : e.ack_tx = None

\* A subscription opened without options wrote its Subscribe frame and the
\* caller pulled two events from it.
C33_Witness ==
  /\ request = subscribe(<<"orders.*">>)
  /\ wire_out = << [action |-> "subscribe", topics |-> <<"orders.*">>,
                    options |-> [auto_ack |-> TRUE]] >>
  /\ Len(yielded) = 2
  /\ IsOk(yielded[1]) /\ IsOk(yielded[2])
  /\ Cardinality(held) = 2

\* C34: when NOTIF_API_KEY is unset or holds a key that does not start with
\* "nsh_", from_env returns an authentication error and no client, and the
\* program never starts a connection: no socket is opened, no frame is
\* written, no attempt is counted, no handle exists and no emit is made.
C34_NoClientWithoutValidKey ==
  (env_api_key = None \/ env_api_key[1][1] # "nsh_") =>
    /\ from_env.tag = "Err"
    /\ from_env.error.variant = "Auth"
    /\ conn = "Init"
    /\ link = "none"
    /\ wire_out = <<>>
    /\ handle = "none"
    /\ attempts = 0
    /\ emit_pc = "idle"

\* The event log was started with a key without the prefix, from_env failed
\* and the loop is in its 5 s sleep.
C34_Witness ==
  /\ supervisor = "event_log"
  /\ env_api_key = Some(<< "sk_", "k1" >>)
  /\ from_env.tag = "Err"
  /\ sup_pc = "sleeping"

\* ------------------------------------------------------------------ permissions
\* The permission state of examples/agent-management/src/lib.rs.  Tauri runs
\* every async command as a task of its multi-threaded runtime, so commands
\* run concurrently with one another and with the subscription handler; a
\* step below is the code between two suspension points (lock().await,
\* emit(..).await).  The agents mutex is left out: every other holder of it
\* takes no second lock and gives it back without suspending
\* (lib.rs:343, 584, 681), so get_badge_counts always gets it.
Sessions == {"default", "s1"}
PermDecisions == {"allow", "deny"}

\* HashMap operations on a map kept as a function whose domain is the keys
\* present.
contains_key(m, k) == k \in DOMAIN m
map_get(m, k) == IF k \in DOMAIN m THEN Some(m[k]) ELSE None
map_insert(m, k, v) == [x \in DOMAIN m \cup {k} |-> IF x = k THEN v ELSE m[x]]
map_remove(m, k) == [x \in DOMAIN m \ {k} |-> m[x]]

\* lib.rs:24-30  PermissionRequest.  tool_name, tool_input and cwd are carried
\* along and decide nothing.
PermissionRequest(id, session_id) == [id |-> id, session_id |-> session_id]

\* pop_front that hands out the oldest request and leaves it in the queue.
pop_front_peek(queue) ==
  IF queue = <<>> THEN [item |-> None, rest |-> queue]
  ELSE [item |-> Some(Head(queue)), rest |-> queue]

\* VecDeque::pop_front (lib.rs:210)
pop_front(queue) ==
  IF queue = <<>> THEN [item |-> None, rest |-> queue]
  ELSE [item |-> Some(Head(queue)), rest |-> Tail(queue)]

\* lib.rs:318  queues.values().map(|q| q.len()).sum()
RECURSIVE sum_len(_, _)
sum_len(m, keys) ==
  IF keys = {} THEN 0
  ELSE LET k == CHOOSE x \in keys : TRUE
       IN  Len(m[k]) + sum_len(m, keys \ {k})

\* lib.rs:257  map_err(|e| e.to_string()): the error is kept as the text
\* Display gives for it.
to_string(e) == << "Display", e >>

\* lib.rs:538-562  the handler of one event of the permission subscription
\* whose payload decodes as a PermissionRequest: a missing id becomes the
\* event's id, a missing session id "default", and the request is pushed at
\* the back of its session's queue while the queues mutex is held.  Err items
\* and payloads that do not decode are skipped and change nothing.
permission_request(event_id, payload) ==
  /\ Len(arrived) < MaxRequests
  /\ locked.queues = "free"
  /\ LET req == [payload EXCEPT
                   !.id = IF payload.id = None THEN Some(event_id) ELSE @]
         session_id == unwrap_or(req.session_id, "default")
         queue == IF contains_key(queues, session_id)
                  THEN queues[session_id] ELSE <<>>
     IN  /\ queues' = map_insert(queues, session_id, Append(queue, req))
         /\ arrived' = Append(arrived, req)
  /\ UNCHANGED << active, locked, task, presented, invoked >>
  /\ UNCHANGED << coreVars, supVars, emitVars >>

\* A command has returned: its locals are gone, its result is with the
\* frontend.
Returned(cmd, result) ==
  [cmd |-> cmd, pc |-> "returned", session_id |-> "", decision |-> "",
   removed |-> None, sent |-> None, result |-> Some(result)]

\* The first suspension point of each command.
first_await(cmd) ==
  IF cmd \in {"get_sessions", "get_badge_counts"} THEN "lock_queues"
  ELSE "lock_active"

\* The frontend invokes a command; the task runs up to its first
\* lock().await.
invoke(t, cmd, session_id, decision) ==
  /\ invoked < MaxCommands
  /\ invoked' = invoked + 1
  /\ task[t].pc \in {"idle", "returned"}
  \* the second task is used for a command invoked while another runs
  /\ t = "t2" => task["t1"].pc \notin {"idle", "returned"}
  /\ task' = [task EXCEPT ![t] =
                [cmd |-> cmd, pc |-> first_await(cmd),
                 session_id |-> session_id, decision |-> decision,
                 removed |-> None, sent |-> None, result |-> None]]
  /\ UNCHANGED << queues, active, locked, arrived, presented >>
  /\ UNCHANGED << coreVars, supVars, emitVars >>

\* lib.rs:166, 313  let queues = state.queues.lock().await;
lock_queues(t) ==
  /\ task[t].cmd \in {"get_sessions", "get_badge_counts"}
  /\ task[t].pc = "lock_queues"
  /\ locked.queues = "free"
  /\ locked' = [locked EXCEPT !.queues = t]
  /\ task' = [task EXCEPT ![t].pc = "lock_active"]
  /\ UNCHANGED << queues, active, arrived, presented, invoked >>
  /\ UNCHANGED << coreVars, supVars, emitVars >>

\* lib.rs:32-38, 173-191  one SessionInfo for every session with a request
\* queued or active; the Vec is in the order of a HashSet, kept as a set.
SessionInfos ==
  { [session_id |-> s,
     queue_count |-> (IF contains_key(queues, s) THEN Len(queues[s]) ELSE 0)
                     + (IF contains_key(active, s) THEN 1 ELSE 0)] :
      s \in { x \in DOMAIN queues \cup DOMAIN active :
                (IF contains_key(queues, x) THEN Len(queues[x]) ELSE 0)
                + (IF contains_key(active, x) THEN 1 ELSE 0) > 0 } }

\* lib.rs:167-194  get_sessions gets the active mutex while it holds the
\* queues mutex, builds the list and returns; both guards are dropped.
get_sessions(t) ==
  /\ task[t].cmd = "get_sessions"
  /\ task[t].pc = "lock_active"
  /\ locked.active = "free"
  /\ locked' = [locked EXCEPT !.queues = "free"]
  /\ task' = [task EXCEPT ![t] = Returned("get_sessions", Ok(SessionInfos))]
  /\ UNCHANGED << queues, active, arrived, presented, invoked >>
  /\ UNCHANGED << coreVars, supVars, emitVars >>

\* lib.rs:314  get_badge_counts gets the active mutex while it holds the
\* queues mutex.
get_badge_counts_lock_active(t) ==
  /\ task[t].cmd = "get_badge_counts"
  /\ task[t].pc = "lock_active"
  /\ locked.active = "free"
  /\ locked' = [locked EXCEPT !.active = t]
  /\ task' = [task EXCEPT ![t].pc = "lock_agents"]
  /\ UNCHANGED << queues, active, arrived, presented, invoked >>
  /\ UNCHANGED << coreVars, supVars, emitVars >>

\* lib.rs:315-326  with the agents mutex too, the counts are taken and
\* returned; the guards are dropped.  agents_busy is not followed.
get_badge_counts(t) ==
  /\ task[t].cmd = "get_badge_counts"
  /\ task[t].pc = "lock_agents"
  /\ locked' = [locked EXCEPT !.queues = "free", !.active = "free"]
  /\ task' = [task EXCEPT ![t] =
                Returned("get_badge_counts",
                         Ok([permissions |->
                               sum_len(queues, DOMAIN queues)
                               + Cardinality(DOMAIN active)]))]
  /\ UNCHANGED << queues, active, arrived, presented, invoked >>
  /\ UNCHANGED << coreVars, supVars, emitVars >>

\* lib.rs:202-206  get_current_permission gets the active mutex; a session
\* with an active request gets a clone of it at once.
get_current_permission_lock_active(t) ==
  /\ task[t].cmd = "get_current_permission"
  /\ task[t].pc = "lock_active"
  /\ locked.active = "free"
  /\ IF contains_key(active, task[t].session_id)
     THEN /\ task' = [task EXCEPT ![t] =
                        Returned("get_current_permission",
                                 Ok(Some(active[task[t].session_id])))]
          /\ UNCHANGED locked
     ELSE /\ task' = [task EXCEPT ![t].pc = "lock_queues"]
          /\ locked' = [locked EXCEPT !.active = t]
  /\ UNCHANGED << queues, active, arrived, presented, invoked >>
  /\ UNCHANGED << coreVars, supVars, emitVars >>

\* lib.rs:208-216  holding the active mutex it gets the queues mutex, moves
\* the oldest request of the session from its queue into active and returns
\* it, or returns None when nothing is queued.
get_current_permission(t) ==
  /\ task[t].cmd = "get_current_permission"
  /\ task[t].pc = "lock_queues"
  /\ locked.queues = "free"
  /\ LET session_id == task[t].session_id
         popped == IF contains_key(queues, session_id)
                   THEN pop_front(queues[session_id])
                   ELSE [item |-> None, rest |-> <<>>]
     IN  IF popped.item # None
         THEN /\ queues' = [queues EXCEPT ![session_id] = popped.rest]
              /\ active' = map_insert(active, session_id, popped.item[1])
              /\ presented' = Append(presented, popped.item[1])
              /\ task' = [task EXCEPT ![t] =
                            Returned("get_current_permission",
                                     Ok(Some(popped.item[1])))]
         ELSE /\ task' = [task EXCEPT ![t] =
                            Returned("get_current_permission", Ok(None))]
              /\ UNCHANGED << queues, active, presented >>
  /\ locked' = [locked EXCEPT !.active = "free"]
  /\ UNCHANGED << arrived, invoked >>
  /\ UNCHANGED << coreVars, supVars, emitVars >>

\* lib.rs:232-254  the response built from the decision.
PermissionResponse(session_id, decision) ==
  [session_id |-> session_id,
   behavior |-> IF decision = "allow" THEN "allow" ELSE "deny"]

\* lib.rs:227-256  respond_permission takes the session's entry out of active
\* inside a block of its own, builds the response and calls
\* client.emit("claude.permission.response", response); it is suspended in
\* emit.  The value remove() returns is dropped by the code and kept here as
\* `removed`; the call of emit is followed in the task, with the request it
\* sent as `sent`.
respond_permission_remove(t) ==
  /\ task[t].cmd = "respond_permission"
  /\ task[t].pc = "lock_active"
  /\ locked.active = "free"
  /\ active' = map_remove(active, task[t].session_id)
  /\ task' = [task EXCEPT
                ![t].pc = "awaiting",
                ![t].removed = map_get(active, task[t].session_id),
                ![t].sent =
                   Some(EmitRequest("claude.permission.response",
                                    PermissionResponse(task[t].session_id,
                                                       task[t].decision)))]
  /\ UNCHANGED << queues, locked, arrived, presented, invoked >>
  /\ UNCHANGED << coreVars, supVars, emitVars >>

\* lib.rs:256-261  emit returns what emit_outcome makes of the reply: an
\* error goes back to the frontend as its text (`?`), otherwise
\* permissions_updated is signalled and Ok(()) returned.
respond_permission(t, reply) ==
  /\ task[t].cmd = "respond_permission"
  /\ task[t].pc = "awaiting"
  /\ task' = [task EXCEPT ![t] =
                Returned("respond_permission",
                         IF emit_outcome(reply).tag = "Err"
                         THEN Err(to_string(emit_outcome(reply).error))
                         ELSE Ok("()"))]
  /\ UNCHANGED << queues, active, locked, arrived, presented, invoked >>
  /\ UNCHANGED << coreVars, supVars, emitVars >>

\* The payloads the n-th event may carry: one without id and session id, one
\* with both.
Payloads(n) ==
  { PermissionRequest(None, None),
    PermissionRequest(Some(<< "req", n >>), Some("s1")) }

\* What the server answers to the emit of a response.
PermReplies ==
  { Response(200, BodyAccepted), Response(401, BodyMessage),
    Response(500, BodyEmpty), SendError }

\* run() (lib.rs:702-780) has built the client and spawned the permission
\* subscription.
PermInit ==
  /\ Fresh(SupervisorRequest("listener"))
  /\ supervisor = "none"
  /\ sup_pc = "none"
  /\ env_api_key = Some(<< "nsh_", "k1" >>)
  /\ status = <<>>
  /\ attempts = 0
  /\ NoEmit
  /\ NoPerm

PermNext ==
  \/ \E payload \in Payloads(Len(arrived) + 1) :
       permission_request(<< "evt", Len(arrived) + 1 >>, payload)
  \/ \E t \in Tasks, cmd \in {"get_sessions", "get_badge_counts"} :
       invoke(t, cmd, "", "")
  \/ \E t \in Tasks, session_id \in Sessions :
       invoke(t, "get_current_permission", session_id, "")
  \/ \E t \in Tasks, session_id \in Sessions, decision \in PermDecisions :
       invoke(t, "respond_permission", session_id, decision)
  \/ \E t \in Tasks : lock_queues(t)
  \/ \E t \in Tasks : get_sessions(t)
  \/ \E t \in Tasks : get_badge_counts_lock_active(t)
  \/ \E t \in Tasks : get_badge_counts(t)
  \/ \E t \in Tasks : get_current_permission_lock_active(t)
  \/ \E t \in Tasks : get_current_permission(t)
  \/ \E t \in Tasks : respond_permission_remove(t)
  \/ \E t \in Tasks, reply \in PermReplies : respond_permission(t, reply)

PermSpec == PermInit /\ [][PermNext]_vars

\* C35: no state has one command holding the queues mutex and waiting for
\* the active mutex while another holds the active mutex and waits for the
\* queues mutex.
C35_NoLockOrderDeadlock ==
  ~ \E a, b \in Tasks :
      /\ locked.queues = a /\ task[a].pc = "lock_active"
      /\ locked.active = b /\ task[b].pc = "lock_queues"

\* The requests of one session in a sequence of requests, and the queue of a
\* session (empty when the map has no entry for it).
BySession(requests, s) ==
  SelectSeq(requests, LAMBDA r : unwrap_or(r.session_id, "default") = s)
QueueOf(s) == IF contains_key(queues, s) THEN queues[s] ELSE <<>>

\* Requests queued for some session or active for some session.
QueuedOrActive ==
  UNION { { QueueOf(s)[i] : i \in DOMAIN QueueOf(s) } : s \in Sessions } \cup
  { active[s] : s \in DOMAIN active }

\* The requests received from the subscription are distinct; those of each
\* session that were made active, followed by those still queued, are the
\* ones received for it in arrival order; and the active request of a session
\* is the one made active last.
PresentedInArrivalOrder ==
  /\ \A i, j \in DOMAIN arrived : arrived[i] = arrived[j] => i = j
  /\ DOMAIN queues \cup DOMAIN active \subseteq Sessions
  /\ \A s \in Sessions :
       /\ BySession(arrived, s) = BySession(presented, s) \o QueueOf(s)
       /\ contains_key(active, s) =>
            /\ BySession(presented, s) # <<>>
            /\ active[s] =
                 BySession(presented, s)[Len(BySession(presented, s))]

\* The count get_badge_counts returns is the number of requests that are
\* queued or active at the moment it is taken.
BadgeCountsQueuedPlusActive ==
  \A t \in Tasks :
    task[t].pc = "lock_agents" /\ task'[t].pc = "returned" =>
      task'[t].result[1].value.permissions = Cardinality(QueuedOrActive)

\* C36: for every session the requests received are presented in arrival
\* order, at most one is active at a time, a request is never both queued and
\* active nor presented twice, and the permissions count of get_badge_counts
\* equals the number of queued requests plus the number of active requests.
C36_ArrivalOrderAndBadge ==
  []PresentedInArrivalOrder /\ [][BadgeCountsQueuedPlusActive]_vars

\* Two requests of session s1 and one of session default have arrived, both
\* of s1 were presented, the second is active, the third is still queued and
\* get_badge_counts has returned 2.
C36_Witness ==
  /\ Len(arrived) = 3
  /\ BySession(presented, "s1") = << arrived[1], arrived[2] >>
  /\ contains_key(active, "s1")
  /\ active["s1"] = arrived[2]
  /\ QueueOf("default") = << arrived[3] >>
  /\ \E t \in Tasks :
       /\ task[t].cmd = "get_badge_counts"
       /\ task[t].pc = "returned"
       /\ task[t].result[1].value.permissions = 2

\* respond_permission returns an error in this step, for a session whose
\* active request it took out when it started.
RespondFails(t) ==
  /\ task[t].cmd = "respond_permission"
  /\ task[t].pc = "awaiting"
  /\ task[t].removed # None
  /\ task'[t].pc = "returned"
  /\ task'[t].result[1].tag = "Err"

\* C37: when respond_permission fails because publishing the response
\* returned an error, the request that was active for the session when the
\* command was invoked is still recorded as active.
C37_FailedRespondKeepsActive ==
  [][\A t \in Tasks :
       RespondFails(t) =>
         /\ contains_key(active', task[t].session_id)
         /\ active'[task[t].session_id] = task[t].removed[1]]_vars

====
